---------------------------- MODULE Spec2Model ----------------------------
(***************************************************************************)
(* A model of ScanTracker (src/src/utils/scanTracker.ts): the spherical    *)
(* field-of-view coverage tracker, and of OrientationTracker               *)
(* (src/src/utils/photoDataRecorder.ts): the gyroscope integrator that     *)
(* feeds it.                                                               *)
(*                                                                         *)
(* Angles are integers in units of 1/6 degree, so that Math.PI is 1080,    *)
(* the half field of view (37.5 degrees) is 225 and one step of the 10x10  *)
(* sampling pattern (HALF_FOV / 9) is exactly 25.  A stored theta is the   *)
(* floor of the real value: floor(floor(x) / w) = floor(x / w), so the     *)
(* grid cell of a point is the one the real value has.  Times are          *)
(* milliseconds.                                                           *)
(***************************************************************************)
EXTENDS Integers, Sequences, FiniteSets, TLC

(***************************************************************************)
(* Bounds of the model.                                                    *)
(***************************************************************************)
\* The clock runs from StartTime to StartTime + MaxTicks * TickMs.
MaxTicks == 3
\* The callback is invoked at most MaxCallbacks times in a run.
MaxCallbacks == 3
\* SweepSpec sweeps the band with n x n orientations, n in SweepMin..SweepMax.
SweepMin == 3
SweepMax == 7

\* Date.now() at construction: any value >= minDwellTime (the epoch is 1970).
StartTime == 1000
\* Date.now() advances in steps of half the dwell interval.
TickMs == 100

\* The clock of EstimatorSpec runs MaxElapse steps of ElapseMs milliseconds.
MaxElapse == 4
ElapseMs == 50
\* onOrientationChange is invoked at most MaxOrientationCallbacks times in a
\* run of EstimatorSpec.
MaxOrientationCallbacks == 3
\* At most MaxListeners listeners are attached to a sensor at a time.
MaxListeners == 2
\* RateSpec feeds at most MaxFed angular-velocity samples.
MaxFed == 24
\* In ClockSpec the clock is set back at most MaxStepsBack * ElapseMs before
\* StartTime.
MaxStepsBack == 2
\* A recording holds at most MaxPhotos records.
MaxPhotos == 3
\* startRecording of the rotation recorder is called at most MaxRotationCalls
\* times, and its timers record at most MaxRotationData points in a recording.
MaxRotationCalls == 2
MaxRotationData == 2
\* CameraScreen2 starts at most MaxScans scans and MaxCaptures captures.
MaxScans == 2
MaxCaptures == 2

(***************************************************************************)
(* Program constants.                                                      *)
(***************************************************************************)
PI_U == 1080
gridResolution == 10
HALF_FOV == 225
minDwellTime == 200
WHITE_DOME_PHI_START == 720
WHITE_DOME_PHI_END == PI_U
WHITE_DOME_PHI_RANGE == WHITE_DOME_PHI_END - WHITE_DOME_PHI_START
\* 0.05 rad is 17.19 units: for an integer phi, phi >= 720 - 17.19 iff
\* phi >= 703 and phi <= 1080 + 17.19 iff phi <= 1097.
WHITE_DOME_PHI_START_WITH_TOLERANCE == 703
WHITE_DOME_PHI_END_WITH_TOLERANCE == 1097
TWO_PI == 2 * PI_U
samples == 10
tolerance == 4

Abs(x) == IF x < 0 THEN -x ELSE x

\* ((x % TWO_PI) + TWO_PI) % TWO_PI of the code: the mathematical modulus.
NormalizeTheta(x) == x % TWO_PI

(***************************************************************************)
(* The inputs: orientations {pitch, yaw} (roll is never read).             *)
(*   pitch    0: phi = pi exactly, the estimator's state after reset()     *)
(*   pitch    3: phi = 179.5 deg, the theta offsets wrap several times     *)
(*   pitch  180: phi = 150 deg = 5*pi/6, the centre of the band            *)
(*   pitch -180, yaw -pi/2: the same phi, seen with a negative pitch, at   *)
(*               theta = 0: the look direction centred in the band         *)
(*   pitch  376: phi = 704, below the band, inside its tolerance           *)
(*   pitch  378: phi = 702, just outside the band                          *)
(***************************************************************************)
Orientation(p, y) == [pitch |-> p, yaw |-> y]

\* The orientation whose look direction is phi = 5*pi/6, theta = 0.
CentredOrientation == Orientation(-180, -540)

Orientations ==
    { Orientation(0, 0), Orientation(3, 0), Orientation(180, 0),
      CentredOrientation, Orientation(376, 0), Orientation(378, 0) }

ScanPoint(phi, theta, timestamp) ==
    [phi |-> phi, theta |-> theta, timestamp |-> timestamp]

ScanCoverage(total, points) ==
    [totalCoverage |-> total, scannedPoints |-> points]

\* No value: the callback was never invoked, the last call returned nothing.
NoCoverage == ScanCoverage(-1, <<>>)

VARIABLES
    scannedPoints,    \* this.scannedPoints
    lastCaptureTime,  \* this.lastCaptureTime
    coverageGrid,     \* this.coverageGrid: the set of cells <<i, j>> that are true
    now,              \* Date.now()
    cbCount,          \* the number of onCoverageChange invocations so far
    delivered,        \* the value of the last onCoverageChange invocation
    returned,         \* what the last call returned (getCoverage), or NoCoverage
    deliveredShares,  \* delivered.scannedPoints is the tracker's own array
    returnedShares,   \* returned.scannedPoints is the tracker's own array
    lastOp,           \* the last call made on the tracker
    sweepSize,        \* the sweep takes sweepSize x sweepSize orientations
    sweepAt           \* the number of orientations the sweep has fed

(***************************************************************************)
(* OrientationTracker.  Angular velocities are integers in mrad/s and      *)
(* times in milliseconds, so that data.x * deltaTime, with deltaTime =     *)
(* (currentTime - lastTimestamp) / 1000, is the integer                    *)
(* data.x * (currentTime - lastTimestamp) in microradians: the angles are  *)
(* kept in microradians.                                                   *)
(***************************************************************************)
VARIABLES
    currentOrientation,       \* this.currentOrientation
    lastTimestamp,            \* this.lastTimestamp
    lastDriftCorrection,      \* this.lastDriftCorrection
    latestAccelData,          \* this.latestAccelData
    latestMagnetometerData,   \* this.latestMagnetometerData
    gyroSubscription,         \* this.gyroSubscription: "null", "live" or "removed"
    accelSubscription,        \* this.accelSubscription
    magnetometerSubscription, \* this.magnetometerSubscription
    listeners,                \* the listeners of this tracker attached to each sensor
    orientationCbCount,       \* the number of onOrientationChange invocations so far
    deliveredOrientation,     \* the value of the last onOrientationChange invocation
    returnedOrientation,      \* what the last getCurrentOrientation() returned
    sensorOp,                 \* the last call or sensor event of the tracker
    deliveredObject,          \* the object last handed to onOrientationChange
    returnedObject,           \* the object getCurrentOrientation() returned last
    rate,                     \* RateSpec: the angular velocity and spacing of the stream
    fed                       \* RateSpec: the number of samples fed so far

(***************************************************************************)
(* PhotoDataRecorder (the recorder CameraScreen2 feeds).  A photo URI is a *)
(* number; the timestamps of the records are left out.                     *)
(***************************************************************************)
VARIABLES
    isRecording,      \* this.isRecording
    photoData,        \* this.photoData, a sequence of PhotoData
    currentIndex,     \* this.currentIndex
    recordedData,     \* what the last stopRecording()/getRecordedData() returned
    recorderOp        \* the last call made on the recorder

(***************************************************************************)
(* RotationDataRecorder.  startRecording is an async function with two     *)
(* awaits: a call is suspended at each of them and resumed later, other    *)
(* calls and callbacks running in between.  The listeners and the timers   *)
(* live in DeviceMotion and in the runtime: the recorder holds the latest  *)
(* subscription and interval id only.                                      *)
(***************************************************************************)
VARIABLES
    rotationSubscription, \* this.subscription: "none" (null) or "live"
    intervalId,           \* this.intervalId: "none" (null) or "set"
    rotationIsRecording,  \* this.isRecording
    rotationData,         \* this.rotationData, the rotations recorded
    latestRotation,       \* this.latestRotation: 0 (null) or a rotation
    motionListeners,      \* the listeners of this recorder attached to DeviceMotion
    timers,               \* the intervals of this recorder that are running
    suspended,            \* the startRecording calls suspended at each await
    rotationCalls,        \* the number of startRecording calls made
    rotationOp            \* the last call made on the recorder

(***************************************************************************)
(* CameraScreen2: its refs and state, and the positions of its async       *)
(* handlers.  takePhoto is suspended at "await takePictureAsync" and       *)
(* handleScanStop at the 100 ms wait of its loop and at the two awaits of  *)
(* the Flask calls; timers, completions, presses and the unmount run in    *)
(* between.  React state is read as it is when the handler runs.           *)
(***************************************************************************)
VARIABLES
    isMounted,        \* isMountedRef.current
    effectsRun,       \* the mount effects have run
    isScanning,       \* the state isScanning
    isProcessing,     \* the state isProcessing
    isCapturing,      \* isCapturingRef.current
    photoUris,        \* photoUrisRef.current
    photoInterval,    \* photoIntervalRef.current: "none" (null) or "set"
    inFlight,         \* the takePictureAsync calls that have not completed
    captured,         \* the number of captures started (the URI of the last one)
    scans,            \* the number of scans started
    stopPc,           \* where handleScanStop is
    tries,            \* the local tries of handleScanStop
    stopData,         \* the local photoData of handleScanStop
    errorTimer,       \* the 2000 ms timer of the catch block and the data it holds
    handedOn,         \* what was last handed to generateGLB or to GalleryScreen2
    navigated         \* navigation.replace('GalleryScreen2', ...) was called

trackerVars == <<scannedPoints, lastCaptureTime, coverageGrid, cbCount,
                 delivered, returned, deliveredShares, returnedShares,
                 lastOp, sweepSize, sweepAt>>

estimatorVars == <<currentOrientation, lastTimestamp, lastDriftCorrection,
                   latestAccelData, latestMagnetometerData, gyroSubscription,
                   accelSubscription, magnetometerSubscription, listeners,
                   orientationCbCount, deliveredOrientation,
                   returnedOrientation, sensorOp, deliveredObject,
                   returnedObject, rate, fed>>

recorderVars == <<isRecording, photoData, currentIndex, recordedData,
                  recorderOp>>

rotationVars == <<rotationSubscription, intervalId, rotationIsRecording,
                  rotationData, latestRotation, motionListeners, timers,
                  suspended, rotationCalls, rotationOp>>

screenVars == <<isMounted, effectsRun, isScanning, isProcessing, isCapturing,
                photoUris, photoInterval, inFlight, captured, scans, stopPc,
                tries, stopData, errorTimer, handedOn, navigated>>

appVars == <<recorderVars, rotationVars, screenVars>>

vars == <<scannedPoints, lastCaptureTime, coverageGrid, now, cbCount,
          delivered, returned, deliveredShares, returnedShares, lastOp,
          sweepSize, sweepAt, estimatorVars, appVars>>

(***************************************************************************)
(* generateFOVPattern: the pairs <<a, b>> with u = a / (samples - 1) and   *)
(* v = b / (samples - 1), a = 2i - (samples - 1), in the order of the      *)
(* loops (i outer, j inner), kept when u*u + v*v <= 1.                     *)
(***************************************************************************)
generateFOVPattern ==
    LET n == samples - 1
        all == [k \in 1..(samples * samples) |->
                   << 2 * ((k - 1) \div samples) - n,
                      2 * ((k - 1) % samples) - n >>]
    IN  SelectSeq(all, LAMBDA p : p[1] * p[1] + p[2] * p[2] <= n * n)

fovSamplePattern == generateFOVPattern

(***************************************************************************)
(* orientationToSpherical.  With adjustedPitch = pitch - pi/2 the look     *)
(* direction is y = sin(adjustedPitch) = -cos(pitch), so                   *)
(* phi = acos(-cos(pitch)) = pi - |pitch| for pitch in [-pi, pi]; and      *)
(* cos(adjustedPitch) = sin(pitch) scales x and z, so theta =              *)
(* atan2(-cos(yaw), sin(yaw)) = yaw - pi/2 when it is positive and         *)
(* yaw + pi/2 when it is negative (in double arithmetic it is 6.1e-17 > 0  *)
(* at pitch = 0).  A negative theta is raised by 2*pi.                     *)
(***************************************************************************)
WrapPi(x) == ((x + PI_U) % TWO_PI) - PI_U

orientationToSpherical(o) ==
    LET p == WrapPi(o.pitch)
        quarter == PI_U \div 2
    IN  [phi   |-> PI_U - Abs(p),
         theta |-> IF p >= 0 THEN NormalizeTheta(o.yaw - quarter)
                             ELSE NormalizeTheta(o.yaw + quarter)]

isInWhiteDome(phi) ==
    /\ phi >= WHITE_DOME_PHI_START_WITH_TOLERANCE
    /\ phi <= WHITE_DOME_PHI_END_WITH_TOLERANCE

(***************************************************************************)
(* HALF_FOV / sinCenterPhi of calculateFOVCoverage, in thousandths of a    *)
(* unit, for centerPhi = 703 .. 1079 (the in-band centres below pi):       *)
(* round(225000 / sin(centerPhi)).  Math.max(centerPhi, 0.001) is          *)
(* centerPhi there.                                                        *)
(***************************************************************************)
HalfFovOverSinTable ==
    <<
       252899, 253278, 253661, 254047, 254436, 254828, 255224, 255623,
       256026, 256432, 256842, 257255, 257671, 258091, 258515, 258942,
       259373, 259808, 260246, 260688, 261133, 261583, 262036, 262493,
       262953, 263418, 263886, 264359, 264835, 265315, 265799, 266288,
       266780, 267276, 267777, 268282, 268791, 269304, 269821, 270343,
       270869, 271399, 271934, 272473, 273016, 273565, 274117, 274674,
       275236, 275802, 276374, 276949, 277530, 278115, 278705, 279301,
       279901, 280506, 281116, 281731, 282351, 282976, 283606, 284242,
       284883, 285529, 286181, 286838, 287500, 288168, 288842, 289521,
       290206, 290896, 291593, 292295, 293003, 293717, 294437, 295163,
       295895, 296633, 297377, 298128, 298885, 299648, 300418, 301195,
       301978, 302767, 303564, 304367, 305177, 305994, 306818, 307649,
       308487, 309332, 310185, 311045, 311912, 312787, 313669, 314559,
       315457, 316363, 317276, 318198, 319128, 320066, 321012, 321966,
       322929, 323900, 324880, 325869, 326866, 327873, 328888, 329913,
       330947, 331990, 333042, 334104, 335176, 336257, 337349, 338450,
       339561, 340683, 341815, 342957, 344110, 345274, 346448, 347633,
       348830, 350038, 351257, 352488, 353730, 354984, 356250, 357529,
       358819, 360122, 361437, 362765, 364106, 365461, 366828, 368209,
       369603, 371011, 372433, 373869, 375319, 376784, 378264, 379758,
       381268, 382793, 384333, 385889, 387461, 389050, 390654, 392276,
       393914, 395569, 397241, 398932, 400640, 402366, 404110, 405873,
       407655, 409456, 411277, 413118, 414978, 416859, 418761, 420683,
       422627, 424593, 426581, 428591, 430623, 432679, 434758, 436861,
       438988, 441140, 443316, 445518, 447746, 450000, 452281, 454588,
       456924, 459287, 461679, 464100, 466550, 469030, 471541, 474083,
       476657, 479262, 481901, 484572, 487278, 490018, 492794, 495605,
       498453, 501338, 504261, 507222, 510223, 513264, 516345, 519469,
       522635, 525844, 529097, 532395, 535740, 539131, 542570, 546057,
       549595, 553184, 556824, 560517, 564265, 568067, 571927, 575844,
       579819, 583856, 587953, 592114, 596339, 600630, 604988, 609416,
       613913, 618483, 623127, 627846, 632643, 637519, 642476, 647517,
       652643, 657856, 663159, 668554, 674042, 679628, 685313, 691100,
       696991, 702989, 709098, 715320, 721658, 728115, 734696, 741403,
       748240, 755210, 762318, 769568, 776964, 784510, 792211, 800071,
       808096, 816290, 824659, 833209, 841945, 850873, 860001, 869333,
       878878, 888643, 898634, 908861, 919330, 930052, 941035, 952289,
       963823, 975648, 987776, 1000218, 1012985, 1026092, 1039551, 1053377,
       1067585, 1082190, 1097210, 1112663, 1128567, 1144941, 1161808, 1179190,
       1197109, 1215592, 1234666, 1254358, 1274700, 1295723, 1317463, 1339957,
       1363243, 1387365, 1412368, 1438302, 1465218, 1493174, 1522231, 1552454,
       1583915, 1616692, 1650868, 1686535, 1723792, 1762748, 1803520, 1846240,
       1891048, 1938103, 1987576, 2039659, 2094563, 2152524, 2213803, 2278693,
       2347522, 2420660, 2498524, 2581585, 2670383, 2765532, 2867736, 2977811,
       3096701, 3225507, 3365523, 3518278, 3685592, 3869648, 4073089, 4299148,
       4551814, 4836077, 5158257, 5526478, 5951365, 6447084, 7032955, 7736021,
       8595349, 9669536, 11050664, 12892205, 15470406, 19337762, 25783428, 38674869,
       77349411 >>

HalfFovOverSin(centerPhi) ==
    HalfFovOverSinTable[centerPhi - WHITE_DOME_PHI_START_WITH_TOLERANCE + 1]

(***************************************************************************)
(* At centerPhi = Math.PI, Math.sin gives 1.2246e-16, the offset           *)
(* u * HALF_FOV / sinCenterPhi is of the order of 1e15 rad and the         *)
(* normalised theta is what is left of it after the double rounding and    *)
(* the two % TWO_PI.  These are the values the double arithmetic yields    *)
(* (floor, in units) for centerTheta = 1620 (yaw = 0), by a = 9 * u.       *)
(***************************************************************************)
NormalizedThetaAtPi(a, centerTheta) ==
    CASE centerTheta = 1620 /\ a = -7 -> 2094
      [] centerTheta = 1620 /\ a = -5 -> 1555
      [] centerTheta = 1620 /\ a = -3 -> 1188
      [] centerTheta = 1620 /\ a = -1 -> 693
      [] centerTheta = 1620 /\ a = 1  -> 412
      [] centerTheta = 1620 /\ a = 3  -> 1905
      [] centerTheta = 1620 /\ a = 5  -> 1538
      [] centerTheta = 1620 /\ a = 7  -> 999

rawOffsetTheta(a, centerPhi, centerTheta) ==
    IF centerPhi = PI_U
    THEN NormalizedThetaAtPi(a, centerTheta)
    ELSE centerTheta + (a * HalfFovOverSin(centerPhi)) \div (1000 * (samples - 1))

\* The offset taken as u * FOV / sinCenterPhi.
normalizedThetaFullFov(a, centerPhi, centerTheta) ==
    IF centerPhi = PI_U
    THEN NormalizedThetaAtPi(a, centerTheta)
    ELSE NormalizeTheta(centerTheta
             + (2 * a * HalfFovOverSin(centerPhi)) \div (1000 * (samples - 1)))

\* normalizedTheta of the sample with u = a / (samples - 1).
normalizedTheta(a, centerPhi, centerTheta) ==
    IF centerPhi = PI_U
    THEN NormalizedThetaAtPi(a, centerTheta)
    ELSE NormalizeTheta(centerTheta
             + (a * HalfFovOverSin(centerPhi)) \div (1000 * (samples - 1)))

\* offsetPhi of the sample with v = b / (samples - 1).
offsetPhi(b, centerPhi) == centerPhi + (b * HALF_FOV) \div (samples - 1)

\* The test without the band.
KeepSampleNoDome(phi) == phi >= 0 /\ phi <= PI_U

\* The test of calculateFOVCoverage on a sample's phi.
KeepSample(phi) == phi >= 0 /\ phi <= PI_U /\ isInWhiteDome(phi)

(***************************************************************************)
(* calculateFOVCoverage: the samples of the pattern, in its order, that    *)
(* pass the test, stamped with Date.now().                                 *)
(***************************************************************************)
calculateFOVCoverage(centerPhi, centerTheta, timestamp) ==
    LET kept == SelectSeq(fovSamplePattern,
                    LAMBDA s : KeepSample(offsetPhi(s[2], centerPhi)))
    IN  [k \in 1..Len(kept) |->
            ScanPoint(offsetPhi(kept[k][2], centerPhi),
                      normalizedTheta(kept[k][1], centerPhi, centerTheta),
                      timestamp)]

(***************************************************************************)
(* calculateCoverage.  Floor division gives Math.floor, also of a negative *)
(* quotient.                                                               *)
(***************************************************************************)
gridPhi(point) ==
    ((point.phi - WHITE_DOME_PHI_START) * gridResolution) \div WHITE_DOME_PHI_RANGE

gridTheta(point) == (point.theta * gridResolution) \div TWO_PI

InGrid(i, j) ==
    i >= 0 /\ i < gridResolution /\ j >= 0 /\ j < gridResolution

ResetGridSkipped(grid) == grid

\* The loop "Reset grid efficiently": every cell false.
ResetGrid(grid) == {}

\* The loop "Mark grid cells as covered" over the point history: the cell of
\* each point of the white dome is marked when it passes the bounds check.
MarkGrid(grid, points) ==
    LET inDome == { k \in 1..Len(points) : isInWhiteDome(points[k].phi) }
        hit    == { <<gridPhi(points[k]), gridTheta(points[k])>> : k \in inDome }
    IN  grid \cup { cell \in hit : InGrid(cell[1], cell[2]) }

\* this.coverageGrid after calculateCoverage (untouched on the early return).
GridAfterCalculate(grid, points) ==
    IF Len(points) = 0 THEN grid ELSE MarkGrid(ResetGrid(grid), points)

AdjustCoverageNoSnap(coverage) == IF coverage < 100 THEN coverage ELSE 100

\* adjustedCoverage, then Math.min(adjustedCoverage, 100).
AdjustCoverage(coverage) ==
    LET adjustedCoverage == IF coverage >= 100 - tolerance THEN 100 ELSE coverage
    IN  IF adjustedCoverage < 100 THEN adjustedCoverage ELSE 100

\* (coveredCells / totalCells) * 100: totalCells is 100, the quotient exact.
RawCoverage(coveredCells) ==
    (coveredCells * 100) \div (gridResolution * gridResolution)

\* The value calculateCoverage returns, the grid being `grid` on entry.
calculateCoverage(grid, points) ==
    IF Len(points) = 0
    THEN ScanCoverage(0, <<>>)
    ELSE LET coveredCells == Cardinality(GridAfterCalculate(grid, points))
         IN  ScanCoverage(AdjustCoverage(RawCoverage(coveredCells)), points)

(***************************************************************************)
(* The state after construction: no point, lastCaptureTime = 0, a grid of  *)
(* false cells; the callback was never invoked.                            *)
(***************************************************************************)
Op(name, o, t) == [op |-> name, orientation |-> o, at |-> t]

NoOrientation == Orientation(0, 0)

(***************************************************************************)
(* The state of an OrientationTracker after construction: the field        *)
(* initialisers.  No listener is attached before start().                  *)
(***************************************************************************)
staleGapMs == 100
driftCorrectionInterval == 2000
\* handleScanStop: "tries < 20"
maxTries == 20

EstimatedOrientation(pitch, yaw, roll) ==
    [pitch |-> pitch, yaw |-> yaw, roll |-> roll]

Vector3(x, y, z) == [x |-> x, y |-> y, z |-> z]

\* No value: the callback was never invoked, nothing was returned.
NoEstimate == [pitch |-> "none", yaw |-> "none", roll |-> "none"]

SensorOp(name, data, t) == [op |-> name, data |-> data, at |-> t]

NoData == Vector3(0, 0, 0)

(***************************************************************************)
(* An object the tracker has handed out.  It is live when it is the very   *)
(* object this.currentOrientation refers to: its content is then the       *)
(* tracker's angles, whoever writes them.  Otherwise it has a content of   *)
(* its own.  given is FALSE while nothing has been handed out yet.         *)
(***************************************************************************)
LiveObject(value) == [live |-> TRUE, given |-> TRUE, content |-> value]

OwnObject(value) == [live |-> FALSE, given |-> TRUE, content |-> value]

NoObject == [live |-> FALSE, given |-> FALSE, content |-> NoEstimate]

\* reset() assigns a new object to this.currentOrientation: the object that
\* was live keeps the angles it had and is the tracker's no longer.
Detached(object, orientation) ==
    IF object.live THEN OwnObject(orientation) ELSE object

\* No stream is fed (the specifications other than RateSpec).
NoRate == [omega |-> NoData, dt |-> 0]

Sensors == {"Gyroscope", "Accelerometer", "Magnetometer"}

InitEstimator ==
    /\ currentOrientation = EstimatedOrientation(0, 0, 0)
    /\ lastTimestamp = 0
    /\ lastDriftCorrection = 0
    /\ latestAccelData = Vector3(0, 0, 0)
    /\ latestMagnetometerData = Vector3(0, 0, 0)
    /\ gyroSubscription = "null"
    /\ accelSubscription = "null"
    /\ magnetometerSubscription = "null"
    /\ listeners = [sensor \in Sensors |-> 0]
    /\ orientationCbCount = 0
    /\ deliveredOrientation = NoEstimate
    /\ returnedOrientation = NoEstimate
    /\ sensorOp = SensorOp("constructor", NoData, StartTime)
    /\ deliveredObject = NoObject
    /\ returnedObject = NoObject

InitRecorder ==
    /\ isRecording = FALSE
    /\ photoData = <<>>
    /\ currentIndex = 0
    /\ recordedData = <<>>
    /\ recorderOp = "constructor"

InitRotation ==
    /\ rotationSubscription = "none"
    /\ intervalId = "none"
    /\ rotationIsRecording = FALSE
    /\ rotationData = <<>>
    /\ latestRotation = 0
    /\ motionListeners = 0
    /\ timers = 0
    /\ suspended = [isAvailableAsync |-> 0, requestPermissionsAsync |-> 0]
    /\ rotationCalls = 0
    /\ rotationOp = "constructor"

NothingHandedOn == [given |-> FALSE, photoUris |-> <<>>, photoData |-> <<>>]

NoTimer == [pending |-> FALSE, photoData |-> <<>>]

InitScreen ==
    /\ isMounted = TRUE
    /\ effectsRun = FALSE
    /\ isScanning = FALSE
    /\ isProcessing = FALSE
    /\ isCapturing = FALSE
    /\ photoUris = <<>>
    /\ photoInterval = "none"
    /\ inFlight = 0
    /\ captured = 0
    /\ scans = 0
    /\ stopPc = "idle"
    /\ tries = 0
    /\ stopData = <<>>
    /\ errorTimer = NoTimer
    /\ handedOn = NothingHandedOn
    /\ navigated = FALSE

InitApp ==
    /\ InitRecorder
    /\ InitRotation
    /\ InitScreen

InitTracker ==
    /\ scannedPoints = <<>>
    /\ lastCaptureTime = 0
    /\ coverageGrid = {}
    /\ now = StartTime
    /\ cbCount = 0
    /\ delivered = NoCoverage
    /\ returned = NoCoverage
    /\ deliveredShares = FALSE
    /\ returnedShares = FALSE
    /\ lastOp = Op("constructor", NoOrientation, StartTime)

Init ==
    /\ InitTracker
    /\ sweepSize = 0
    /\ sweepAt = 0
    /\ InitEstimator
    /\ rate = NoRate
    /\ fed = 0
    /\ InitApp

\* calculateCoverage returns { ..., scannedPoints: this.scannedPoints }, the
\* tracker's own array, unless the history is empty: it then returns a new
\* empty array, as reset() hands to the callback.
SharesHistory(points) == Len(points) > 0

\* this.onCoverageChange?.(coverage)
Notify(coverage) ==
    /\ cbCount' = cbCount + 1
    /\ delivered' = coverage
    /\ deliveredShares' = SharesHistory(coverage.scannedPoints)

\* "if (now - this.lastCaptureTime < this.minDwellTime) return"
ThrottledOffByOne(t) == t - lastCaptureTime <= minDwellTime

Throttled(t) == t - lastCaptureTime < minDwellTime

\* this.scannedPoints.push(...fovPoints)
PushPointsReplacing(points, fovPoints) == fovPoints

\* The push skipping the samples whose direction the history already holds.
PushPointsDeduplicating(points, fovPoints) ==
    points \o SelectSeq(fovPoints,
                 LAMBDA q : \A k \in 1..Len(points) :
                               points[k].phi # q.phi \/ points[k].theta # q.theta)

PushPoints(points, fovPoints) == points \o fovPoints

\* The tail of updateOrientation: the footprint is pushed, the coverage
\* calculated from the history and handed to the callback.
AcceptUpdateNotifyingFirst(spherical, t) ==
    LET fovPoints == calculateFOVCoverage(spherical.phi, spherical.theta, t)
    IN  /\ scannedPoints' = PushPoints(scannedPoints, fovPoints)
        /\ coverageGrid' = GridAfterCalculate(coverageGrid, scannedPoints)
        /\ Notify(calculateCoverage(coverageGrid, scannedPoints))

AcceptUpdate(spherical, t) ==
    LET fovPoints == calculateFOVCoverage(spherical.phi, spherical.theta, t)
        pushed    == PushPoints(scannedPoints, fovPoints)
    IN  /\ scannedPoints' = pushed
        /\ coverageGrid' = GridAfterCalculate(coverageGrid, pushed)
        /\ Notify(calculateCoverage(coverageGrid, pushed))

\* updateOrientation moving the throttle timestamp after the band test.
UpdateAtStampingInBand(orientation, t) ==
    LET spherical == orientationToSpherical(orientation)
    IN  /\ lastOp' = Op("updateOrientation", orientation, t)
        /\ returned' = NoCoverage
        /\ returnedShares' = FALSE
        /\ IF Throttled(t)
           THEN UNCHANGED <<scannedPoints, lastCaptureTime, coverageGrid,
                            cbCount, delivered, deliveredShares>>
           ELSE IF ~isInWhiteDome(spherical.phi)
                THEN UNCHANGED <<scannedPoints, lastCaptureTime, coverageGrid,
                                 cbCount, delivered, deliveredShares>>
                ELSE /\ lastCaptureTime' = t
                     /\ AcceptUpdate(spherical, t)

UpdateAtNotifyingOutOfBand(orientation, t) ==
    LET spherical == orientationToSpherical(orientation)
    IN  /\ lastOp' = Op("updateOrientation", orientation, t)
        /\ returned' = NoCoverage
        /\ returnedShares' = FALSE
        /\ IF Throttled(t)
           THEN UNCHANGED <<scannedPoints, lastCaptureTime, coverageGrid,
                            cbCount, delivered, deliveredShares>>
           ELSE /\ lastCaptureTime' = t
                /\ IF ~isInWhiteDome(spherical.phi)
                   THEN /\ Notify(calculateCoverage(coverageGrid, scannedPoints))
                        /\ UNCHANGED <<scannedPoints, coverageGrid>>
                   ELSE AcceptUpdate(spherical, t)

(***************************************************************************)
(* updateOrientation(orientation), Date.now() being t.                     *)
(***************************************************************************)
UpdateAt(orientation, t) ==
    LET spherical == orientationToSpherical(orientation)
    IN  /\ lastOp' = Op("updateOrientation", orientation, t)
        /\ returned' = NoCoverage
        /\ returnedShares' = FALSE
        /\ IF Throttled(t)
           THEN UNCHANGED <<scannedPoints, lastCaptureTime, coverageGrid,
                            cbCount, delivered, deliveredShares>>
           ELSE /\ lastCaptureTime' = t
                /\ IF ~isInWhiteDome(spherical.phi)
                   THEN UNCHANGED <<scannedPoints, coverageGrid, cbCount,
                                    delivered, deliveredShares>>
                   ELSE AcceptUpdate(spherical, t)

UpdateOrientation(orientation) ==
    /\ cbCount < MaxCallbacks
    /\ UpdateAt(orientation, now)
    /\ UNCHANGED <<now, sweepSize, sweepAt>>
    /\ UNCHANGED <<estimatorVars, appVars>>

(***************************************************************************)
(* reset()                                                                 *)
(***************************************************************************)
ResetKeepingThrottle ==
    /\ cbCount < MaxCallbacks
    /\ scannedPoints' = <<>>
    /\ Notify(ScanCoverage(0, <<>>))
    /\ lastOp' = Op("reset", NoOrientation, now)
    /\ returned' = NoCoverage
    /\ returnedShares' = FALSE
    /\ UNCHANGED <<lastCaptureTime, coverageGrid, now, sweepSize, sweepAt>>
    /\ UNCHANGED <<estimatorVars, appVars>>

Reset ==
    /\ cbCount < MaxCallbacks
    /\ scannedPoints' = <<>>
    /\ lastCaptureTime' = 0
    /\ Notify(ScanCoverage(0, <<>>))
    /\ lastOp' = Op("reset", NoOrientation, now)
    /\ returned' = NoCoverage
    /\ returnedShares' = FALSE
    /\ UNCHANGED <<coverageGrid, now, sweepSize, sweepAt>>
    /\ UNCHANGED <<estimatorVars, appVars>>

(***************************************************************************)
(* getCoverage()                                                           *)
(***************************************************************************)
GetCoverageNotifying ==
    /\ cbCount < MaxCallbacks
    /\ returned' = calculateCoverage(coverageGrid, scannedPoints)
    /\ returnedShares' = SharesHistory(scannedPoints)
    /\ coverageGrid' = GridAfterCalculate(coverageGrid, scannedPoints)
    /\ Notify(calculateCoverage(coverageGrid, scannedPoints))
    /\ lastOp' = Op("getCoverage", NoOrientation, now)
    /\ UNCHANGED <<scannedPoints, lastCaptureTime, now, sweepSize, sweepAt>>
    /\ UNCHANGED <<estimatorVars, appVars>>

GetCoverage ==
    /\ returned' = calculateCoverage(coverageGrid, scannedPoints)
    /\ returnedShares' = SharesHistory(scannedPoints)
    /\ coverageGrid' = GridAfterCalculate(coverageGrid, scannedPoints)
    /\ lastOp' = Op("getCoverage", NoOrientation, now)
    /\ UNCHANGED <<scannedPoints, lastCaptureTime, now, cbCount, delivered,
                   deliveredShares,
                   sweepSize, sweepAt>>
    /\ UNCHANGED <<estimatorVars, appVars>>

\* Time passes between two calls.
Tick ==
    /\ now < StartTime + MaxTicks * TickMs
    /\ now' = now + TickMs
    /\ UNCHANGED <<scannedPoints, lastCaptureTime, coverageGrid, cbCount,
                   delivered, returned, deliveredShares, returnedShares,
                   lastOp, sweepSize, sweepAt>>
    /\ UNCHANGED <<estimatorVars, appVars>>

Next ==
    \/ \E orientation \in Orientations : UpdateOrientation(orientation)
    \/ Reset
    \/ GetCoverage
    \/ Tick

Spec == Init /\ [][Next]_vars

(***************************************************************************)
(* A full sweep: a caller feeds sweepSize x sweepSize orientations whose   *)
(* look directions are the centres of a uniform partition of the band      *)
(* [WHITE_DOME_PHI_START, WHITE_DOME_PHI_END] x [0, TWO_PI), row by row,   *)
(* one every minDwellTime, and may read getCoverage() at any time.         *)
(***************************************************************************)
SweepOrientation(n, k) ==
    LET row   == k \div n
        col   == k % n
        phi   == WHITE_DOME_PHI_START
                   + (WHITE_DOME_PHI_RANGE * (2 * row + 1)) \div (2 * n)
        theta == (TWO_PI * (2 * col + 1)) \div (2 * n)
    IN  Orientation(PI_U - phi, theta + PI_U \div 2)

SweepInit ==
    /\ InitTracker
    /\ sweepSize \in SweepMin..SweepMax
    /\ sweepAt = 0
    /\ InitEstimator
    /\ rate = NoRate
    /\ fed = 0
    /\ InitApp

SweepStep ==
    /\ sweepAt < sweepSize * sweepSize
    /\ now' = now + minDwellTime
    /\ UpdateAt(SweepOrientation(sweepSize, sweepAt), now')
    /\ sweepAt' = sweepAt + 1
    /\ UNCHANGED sweepSize
    /\ UNCHANGED <<estimatorVars, appVars>>

SweepNext ==
    \/ SweepStep
    \/ GetCoverage

SweepSpec == SweepInit /\ [][SweepNext]_vars

(***************************************************************************)
(* OrientationTracker: the calls and the sensor events.                    *)
(*                                                                         *)
(* The sensor modules (expo-sensors) are outside the repository: what      *)
(* matters of them here is that addListener attaches one more listener     *)
(* and returns its subscription, that remove() detaches that listener      *)
(* (once), and that a sensor event runs every listener attached, one       *)
(* after the other.  One step of a listener action is one run of the       *)
(* listener.                                                               *)
(***************************************************************************)
\* The angular velocities (mrad/s), accelerations and magnetic fields fed.
GyroData == { Vector3(400, -200, 100), Vector3(0, 300, -500) }

AccelData == { Vector3(0, -981, 0), Vector3(300, 0, 900) }

MagData == { Vector3(20, 0, -40) }

\* this.onOrientationChange?.(this.currentOrientation)
NotifyOrientation(orientation) ==
    /\ orientationCbCount' = orientationCbCount + 1
    /\ deliveredOrientation' = orientation
    /\ deliveredObject' = LiveObject(orientation)

\* sensor.addListener(...): one more listener, its subscription kept.
AddListeners == [sensor \in Sensors |-> listeners[sensor] + 1]

\* subscription?.remove(): the listener of a live subscription is detached.
RemoveListener(count, subscription) ==
    IF subscription = "live" THEN count - 1 ELSE count

Removed(subscription) ==
    IF subscription = "live" THEN "removed" ELSE subscription

\* start(): setupGyroscope(), setupAccelerometer(), setupMagnetometer().
StartCall ==
    /\ gyroSubscription' = "live"
    /\ accelSubscription' = "live"
    /\ magnetometerSubscription' = "live"
    /\ listeners' = AddListeners
    /\ sensorOp' = SensorOp("start", NoData, now)
    /\ UNCHANGED <<currentOrientation, lastTimestamp, lastDriftCorrection,
                   latestAccelData, latestMagnetometerData, orientationCbCount,
                   deliveredOrientation, returnedOrientation,
                   deliveredObject, returnedObject>>

OrientationStart ==
    /\ listeners["Gyroscope"] < MaxListeners
    /\ StartCall
    /\ UNCHANGED <<now, rate, fed, trackerVars, appVars>>

\* stop()
OrientationStop ==
    /\ listeners' =
          [sensor \in Sensors |->
              RemoveListener(listeners[sensor],
                  CASE sensor = "Gyroscope" -> gyroSubscription
                    [] sensor = "Accelerometer" -> accelSubscription
                    [] sensor = "Magnetometer" -> magnetometerSubscription)]
    /\ gyroSubscription' = Removed(gyroSubscription)
    /\ accelSubscription' = Removed(accelSubscription)
    /\ magnetometerSubscription' = Removed(magnetometerSubscription)
    /\ sensorOp' = SensorOp("stop", NoData, now)
    /\ UNCHANGED <<currentOrientation, lastTimestamp, lastDriftCorrection,
                   latestAccelData, latestMagnetometerData, orientationCbCount,
                   deliveredOrientation, returnedOrientation,
                   deliveredObject, returnedObject>>
    /\ UNCHANGED <<now, rate, fed, trackerVars, appVars>>

\* "if (deltaTime > 0.1) return", deltaTime being deltaMs / 1000.
\* The test also rejecting a timestamp lower than the previous one.
StaleOrBackwards(deltaMs) == deltaMs > staleGapMs \/ deltaMs < 0

StaleAtThreshold(deltaMs) == deltaMs >= staleGapMs

Stale(deltaMs) == deltaMs > staleGapMs

\* "Integrate gyroscope data": the three += of the listener.
IntegrateWithoutRoll(orientation, data, deltaMs) ==
    EstimatedOrientation(orientation.pitch + data.x * deltaMs,
                         orientation.yaw + data.y * deltaMs,
                         orientation.roll)

Integrate(orientation, data, deltaMs) ==
    EstimatedOrientation(orientation.pitch + data.x * deltaMs,
                         orientation.yaw + data.y * deltaMs,
                         orientation.roll + data.z * deltaMs)

\* The listener notifying also on the sample that seeds lastTimestamp.
GyroscopeSampleNotifyingSeed(data, currentTime) ==
    /\ sensorOp' = SensorOp("gyroscope", data, currentTime)
    /\ lastTimestamp' = currentTime
    /\ IF lastTimestamp = 0
       THEN /\ NotifyOrientation(currentOrientation)
            /\ UNCHANGED currentOrientation
       ELSE IF Stale(currentTime - lastTimestamp)
       THEN UNCHANGED <<currentOrientation, orientationCbCount,
                        deliveredOrientation, deliveredObject>>
       ELSE /\ currentOrientation' =
                  Integrate(currentOrientation, data, currentTime - lastTimestamp)
            /\ NotifyOrientation(currentOrientation')
    /\ UNCHANGED <<lastDriftCorrection, latestAccelData,
                   latestMagnetometerData, gyroSubscription, accelSubscription,
                   magnetometerSubscription, listeners, returnedOrientation,
                   returnedObject>>

(***************************************************************************)
(* The gyroscope listener, Date.now() being currentTime.  The drift        *)
(* correction that follows the integration in the source is commented      *)
(* out: applyDriftCorrection is never called and lastDriftCorrection is    *)
(* never written.                                                          *)
(***************************************************************************)
GyroscopeSample(data, currentTime) ==
    /\ sensorOp' = SensorOp("gyroscope", data, currentTime)
    /\ lastTimestamp' = currentTime
    /\ IF lastTimestamp = 0
       THEN UNCHANGED <<currentOrientation, orientationCbCount,
                        deliveredOrientation, deliveredObject>>
       ELSE IF Stale(currentTime - lastTimestamp)
       THEN UNCHANGED <<currentOrientation, orientationCbCount,
                        deliveredOrientation, deliveredObject>>
       ELSE /\ currentOrientation' =
                  Integrate(currentOrientation, data, currentTime - lastTimestamp)
            /\ NotifyOrientation(currentOrientation')
    /\ UNCHANGED <<lastDriftCorrection, latestAccelData,
                   latestMagnetometerData, gyroSubscription, accelSubscription,
                   magnetometerSubscription, listeners, returnedOrientation,
                   returnedObject>>

GyroscopeListener(data) ==
    /\ listeners["Gyroscope"] > 0
    /\ orientationCbCount < MaxOrientationCallbacks
    /\ GyroscopeSample(data, now)
    /\ UNCHANGED <<now, rate, fed, trackerVars, appVars>>

\* The accelerometer listener moving lastTimestamp as well.
AccelerometerSampleStamping(data) ==
    /\ latestAccelData' = data
    /\ lastTimestamp' = now
    /\ sensorOp' = SensorOp("accelerometer", data, now)
    /\ UNCHANGED <<currentOrientation, lastDriftCorrection,
                   latestMagnetometerData, gyroSubscription, accelSubscription,
                   magnetometerSubscription, listeners, orientationCbCount,
                   deliveredOrientation, returnedOrientation,
                   deliveredObject, returnedObject>>

\* The accelerometer listener: this.latestAccelData = data
AccelerometerSample(data) ==
    /\ latestAccelData' = data
    /\ sensorOp' = SensorOp("accelerometer", data, now)
    /\ UNCHANGED <<currentOrientation, lastTimestamp, lastDriftCorrection,
                   latestMagnetometerData, gyroSubscription, accelSubscription,
                   magnetometerSubscription, listeners, orientationCbCount,
                   deliveredOrientation, returnedOrientation,
                   deliveredObject, returnedObject>>

AccelerometerListener(data) ==
    /\ listeners["Accelerometer"] > 0
    /\ AccelerometerSample(data)
    /\ UNCHANGED <<now, rate, fed, trackerVars, appVars>>

\* The magnetometer listener: this.latestMagnetometerData = data
MagnetometerListener(data) ==
    /\ listeners["Magnetometer"] > 0
    /\ latestMagnetometerData' = data
    /\ sensorOp' = SensorOp("magnetometer", data, now)
    /\ UNCHANGED <<currentOrientation, lastTimestamp, lastDriftCorrection,
                   latestAccelData, gyroSubscription, accelSubscription,
                   magnetometerSubscription, listeners, orientationCbCount,
                   deliveredOrientation, returnedOrientation,
                   deliveredObject, returnedObject>>
    /\ UNCHANGED <<now, rate, fed, trackerVars, appVars>>

\* reset() leaving lastTimestamp.
OrientationResetKeepingTimestamp ==
    /\ currentOrientation' = EstimatedOrientation(0, 0, 0)
    /\ sensorOp' = SensorOp("reset", NoData, now)
    /\ deliveredObject' = Detached(deliveredObject, currentOrientation)
    /\ returnedObject' = Detached(returnedObject, currentOrientation)
    /\ UNCHANGED <<lastTimestamp, lastDriftCorrection, latestAccelData,
                   latestMagnetometerData, gyroSubscription, accelSubscription,
                   magnetometerSubscription, listeners, orientationCbCount,
                   deliveredOrientation, returnedOrientation>>
    /\ UNCHANGED <<now, rate, fed, trackerVars, appVars>>

\* reset()
OrientationReset ==
    /\ currentOrientation' = EstimatedOrientation(0, 0, 0)
    /\ lastTimestamp' = 0
    /\ sensorOp' = SensorOp("reset", NoData, now)
    /\ deliveredObject' = Detached(deliveredObject, currentOrientation)
    /\ returnedObject' = Detached(returnedObject, currentOrientation)
    /\ UNCHANGED <<lastDriftCorrection, latestAccelData,
                   latestMagnetometerData, gyroSubscription, accelSubscription,
                   magnetometerSubscription, listeners, orientationCbCount,
                   deliveredOrientation, returnedOrientation>>
    /\ UNCHANGED <<now, rate, fed, trackerVars, appVars>>

\* getCurrentOrientation() returning this.currentOrientation itself.
ReturnedObjectShared(orientation) == LiveObject(orientation)

\* "return { ...this.currentOrientation }": a new object with the same angles.
ReturnedObject(orientation) == OwnObject(orientation)

\* getCurrentOrientation()
GetCurrentOrientation ==
    /\ returnedOrientation' = currentOrientation
    /\ returnedObject' = ReturnedObject(currentOrientation)
    /\ sensorOp' = SensorOp("getCurrentOrientation", NoData, now)
    /\ UNCHANGED <<currentOrientation, lastTimestamp, lastDriftCorrection,
                   latestAccelData, latestMagnetometerData, gyroSubscription,
                   accelSubscription, magnetometerSubscription, listeners,
                   orientationCbCount, deliveredOrientation, deliveredObject>>
    /\ UNCHANGED <<now, rate, fed, trackerVars, appVars>>

\* Time passes between two calls or events.
Elapse ==
    /\ now < StartTime + MaxElapse * ElapseMs
    /\ now' = now + ElapseMs
    /\ UNCHANGED <<estimatorVars, trackerVars, appVars>>

EstimatorNext ==
    \/ OrientationStart
    \/ OrientationStop
    \/ \E data \in GyroData : GyroscopeListener(data)
    \/ \E data \in AccelData : AccelerometerListener(data)
    \/ \E data \in MagData : MagnetometerListener(data)
    \/ OrientationReset
    \/ GetCurrentOrientation
    \/ Elapse

EstimatorSpec == Init /\ [][EstimatorNext]_vars

(***************************************************************************)
(* A consumer that writes into the objects it was given: the one last      *)
(* handed to its onOrientationChange (CameraScreen2 keeps it in            *)
(* currentOrientationRef and in its state) and the one last returned by    *)
(* getCurrentOrientation().  Writing into a live object writes the         *)
(* tracker's angles.                                                       *)
(***************************************************************************)
ConsumerValues == { EstimatedOrientation(7, 7, 7) }

\* getCurrentOrientation() has returned an object.
HasReturned == returnedObject.given

\* What reading the object gives now.
ContentOf(object) == IF object.live THEN currentOrientation ELSE object.content

ConsumerWritesDelivered(value) ==
    /\ orientationCbCount > 0
    /\ ContentOf(deliveredObject) # value
    /\ IF deliveredObject.live
       THEN currentOrientation' = value /\ UNCHANGED deliveredObject
       ELSE deliveredObject' = OwnObject(value) /\ UNCHANGED currentOrientation
    /\ sensorOp' = SensorOp("writeDelivered", NoData, now)
    /\ UNCHANGED <<lastTimestamp, lastDriftCorrection, latestAccelData,
                   latestMagnetometerData, gyroSubscription, accelSubscription,
                   magnetometerSubscription, listeners, orientationCbCount,
                   deliveredOrientation, returnedOrientation, returnedObject>>
    /\ UNCHANGED <<now, rate, fed, trackerVars, appVars>>

ConsumerWritesReturned(value) ==
    /\ HasReturned
    /\ ContentOf(returnedObject) # value
    /\ IF returnedObject.live
       THEN currentOrientation' = value /\ UNCHANGED returnedObject
       ELSE returnedObject' = OwnObject(value) /\ UNCHANGED currentOrientation
    /\ sensorOp' = SensorOp("writeReturned", NoData, now)
    /\ UNCHANGED <<lastTimestamp, lastDriftCorrection, latestAccelData,
                   latestMagnetometerData, gyroSubscription, accelSubscription,
                   magnetometerSubscription, listeners, orientationCbCount,
                   deliveredOrientation, returnedOrientation, deliveredObject>>
    /\ UNCHANGED <<now, rate, fed, trackerVars, appVars>>

ConsumerStart ==
    /\ listeners["Gyroscope"] = 0
    /\ StartCall
    /\ UNCHANGED <<now, rate, fed, trackerVars, appVars>>

ConsumerNext ==
    \/ ConsumerStart
    \/ \E data \in GyroData : GyroscopeListener(data)
    \/ OrientationReset
    \/ GetCurrentOrientation
    \/ \E value \in ConsumerValues : ConsumerWritesDelivered(value)
    \/ \E value \in ConsumerValues : ConsumerWritesReturned(value)
    \/ Elapse

ConsumerSpec == Init /\ [][ConsumerNext]_vars

(***************************************************************************)
(* A clock that is set back: Date.now() is the wall clock, which an        *)
(* adjustment of the device's time moves backwards, so that a sample's     *)
(* timestamp may be lower than the previous sample's.                      *)
(***************************************************************************)
ClockStepsBack ==
    /\ now > StartTime - MaxStepsBack * ElapseMs
    /\ now' = now - ElapseMs
    /\ UNCHANGED <<estimatorVars, trackerVars, appVars>>

ClockNext ==
    \/ ConsumerStart
    \/ \E data \in GyroData : GyroscopeListener(data)
    \/ Elapse
    \/ ClockStepsBack

ClockSpec == Init /\ [][ClockNext]_vars

(***************************************************************************)
(* PhotoDataRecorder: the calls.                                           *)
(***************************************************************************)
PhotoUris == 1..2

PhotoOrientations ==
    { EstimatedOrientation(0, 0, 0), EstimatedOrientation(20000, -10000, 5000) }

\* The record recordPhotoData builds: yaw -> alpha, pitch -> beta,
\* roll -> gamma.
PhotoData(index, photoUri, orientation) ==
    [index    |-> index,
     alpha    |-> orientation.yaw,
     beta     |-> orientation.pitch,
     gamma    |-> orientation.roll,
     photoUri |-> photoUri]

\* startRecording(): its body holds no await and runs within the call.
StartRecordingCall ==
    /\ photoData' = <<>>
    /\ currentIndex' = 0
    /\ isRecording' = TRUE
    /\ recorderOp' = "startRecording"
    /\ UNCHANGED recordedData

\* recordPhotoData(photoUri, orientation)
RecordPhotoDataCall(photoUri, orientation) ==
    /\ recorderOp' = "recordPhotoData"
    /\ IF ~isRecording
       THEN UNCHANGED <<isRecording, photoData, currentIndex, recordedData>>
       ELSE /\ photoData' = Append(photoData,
                                   PhotoData(currentIndex, photoUri, orientation))
            /\ currentIndex' = currentIndex + 1
            /\ UNCHANGED <<isRecording, recordedData>>

\* stopRecording(): returns [...this.photoData]
StopRecordingCall ==
    /\ isRecording' = FALSE
    /\ recordedData' = photoData
    /\ recorderOp' = "stopRecording"
    /\ UNCHANGED <<photoData, currentIndex>>

\* getRecordedData()
GetRecordedDataCall ==
    /\ recordedData' = photoData
    /\ recorderOp' = "getRecordedData"
    /\ UNCHANGED <<isRecording, photoData, currentIndex>>

\* destroy() leaving currentIndex as it is.
DestroyCallKeepingIndex ==
    /\ isRecording' = FALSE
    /\ photoData' = <<>>
    /\ recorderOp' = "destroy"
    /\ UNCHANGED <<currentIndex, recordedData>>

\* destroy()
DestroyCall ==
    /\ isRecording' = FALSE
    /\ photoData' = <<>>
    /\ currentIndex' = 0
    /\ recorderOp' = "destroy"
    /\ UNCHANGED recordedData

otherThanRecorder == <<now, trackerVars, estimatorVars, rotationVars,
                       screenVars>>

StartRecording == StartRecordingCall /\ UNCHANGED otherThanRecorder

RecordPhotoData(photoUri, orientation) ==
    /\ Len(photoData) < MaxPhotos
    /\ RecordPhotoDataCall(photoUri, orientation)
    /\ UNCHANGED otherThanRecorder

StopRecording == StopRecordingCall /\ UNCHANGED otherThanRecorder

GetRecordedData == GetRecordedDataCall /\ UNCHANGED otherThanRecorder

Destroy == DestroyCall /\ UNCHANGED otherThanRecorder

RecorderNext ==
    \/ StartRecording
    \/ \E photoUri \in PhotoUris, orientation \in PhotoOrientations :
          RecordPhotoData(photoUri, orientation)
    \/ StopRecording
    \/ GetRecordedData
    \/ Destroy

RecorderSpec == Init /\ [][RecorderNext]_vars

(***************************************************************************)
(* RotationDataRecorder: the calls, the resumptions of startRecording      *)
(* after each await, the DeviceMotion events and the ticks of the          *)
(* interval.                                                               *)
(***************************************************************************)
Rotations == 1..2

otherThanRotation == <<now, trackerVars, estimatorVars, recorderVars,
                       screenVars>>

\* cleanup(): clearInterval(this.intervalId) when it is set,
\* this.subscription.remove() when it is set, both fields nulled.
Cleanup ==
    /\ timers' = IF intervalId = "set" THEN timers - 1 ELSE timers
    /\ intervalId' = "none"
    /\ motionListeners' = IF rotationSubscription = "live"
                          THEN motionListeners - 1 ELSE motionListeners
    /\ rotationSubscription' = "none"

\* startRecording(), up to its first await.
RotationStartCall ==
    /\ rotationCalls < MaxRotationCalls
    /\ rotationCalls' = rotationCalls + 1
    /\ Cleanup
    /\ suspended' = [suspended EXCEPT !.isAvailableAsync = @ + 1]
    /\ rotationOp' = "startRecording"
    /\ UNCHANGED <<rotationIsRecording, rotationData, latestRotation>>
    /\ UNCHANGED otherThanRotation

\* A call resumes after "await DeviceMotion.isAvailableAsync()".
RotationAvailable(isAvailable) ==
    /\ suspended.isAvailableAsync > 0
    /\ IF isAvailable
       THEN /\ suspended' = [suspended EXCEPT !.isAvailableAsync = @ - 1,
                                              !.requestPermissionsAsync = @ + 1]
            /\ UNCHANGED <<rotationSubscription, intervalId, motionListeners,
                           timers>>
       ELSE /\ suspended' = [suspended EXCEPT !.isAvailableAsync = @ - 1]
            /\ Cleanup
    /\ UNCHANGED <<rotationIsRecording, rotationData, latestRotation,
                   rotationCalls, rotationOp>>
    /\ UNCHANGED otherThanRotation

\* The tail of startRecording: the data cleared, the listener added, the
\* flag set, the interval set; the fields are overwritten.
RotationSetUp ==
    /\ rotationData' = <<>>
    /\ latestRotation' = 0
    /\ rotationSubscription' = "live"
    /\ motionListeners' = motionListeners + 1
    /\ rotationIsRecording' = TRUE
    /\ intervalId' = "set"
    /\ timers' = timers + 1

\* A call resumes after "await DeviceMotion.requestPermissionsAsync()".
RotationPermission(granted) ==
    /\ suspended.requestPermissionsAsync > 0
    /\ suspended' = [suspended EXCEPT !.requestPermissionsAsync = @ - 1]
    /\ IF granted
       THEN RotationSetUp
       ELSE /\ Cleanup
            /\ UNCHANGED <<rotationIsRecording, rotationData, latestRotation>>
    /\ UNCHANGED <<rotationCalls, rotationOp>>
    /\ UNCHANGED otherThanRotation

\* One run of the DeviceMotion listener.
RotationListener(rotation) ==
    /\ motionListeners > 0
    /\ rotationIsRecording
    /\ latestRotation # rotation
    /\ latestRotation' = rotation
    /\ UNCHANGED <<rotationSubscription, intervalId, rotationIsRecording,
                   rotationData, motionListeners, timers, suspended,
                   rotationCalls, rotationOp>>
    /\ UNCHANGED otherThanRotation

\* One tick of an interval that records a point.
RotationTimer ==
    /\ timers > 0
    /\ latestRotation # 0 /\ rotationIsRecording
    /\ Len(rotationData) < MaxRotationData
    /\ rotationData' = Append(rotationData, latestRotation)
    /\ UNCHANGED <<rotationSubscription, intervalId, rotationIsRecording,
                   latestRotation, motionListeners, timers, suspended,
                   rotationCalls, rotationOp>>
    /\ UNCHANGED otherThanRotation

\* stopRecording()
RotationStop ==
    /\ rotationIsRecording' = FALSE
    /\ rotationData' = IF latestRotation # 0 /\ rotationIsRecording
                       THEN Append(rotationData, latestRotation)
                       ELSE rotationData
    /\ Cleanup
    /\ rotationOp' = "stopRecording"
    /\ UNCHANGED <<latestRotation, suspended, rotationCalls>>
    /\ UNCHANGED otherThanRotation

\* destroy()
RotationDestroy ==
    /\ rotationIsRecording' = FALSE
    /\ Cleanup
    /\ rotationData' = <<>>
    /\ latestRotation' = 0
    /\ rotationOp' = "destroy"
    /\ UNCHANGED <<suspended, rotationCalls>>
    /\ UNCHANGED otherThanRotation

RotationNext ==
    \/ RotationStartCall
    \/ \E isAvailable \in BOOLEAN : RotationAvailable(isAvailable)
    \/ \E granted \in BOOLEAN : RotationPermission(granted)
    \/ \E rotation \in Rotations : RotationListener(rotation)
    \/ RotationTimer
    \/ RotationStop
    \/ RotationDestroy

RotationSpec == Init /\ [][RotationNext]_vars

(***************************************************************************)
(* CameraScreen2: the mount effects, the presses, the 200 ms capture       *)
(* timer, the completion of a capture, the resumptions of handleScanStop   *)
(* and the unmount.  The calls the handlers make on the recorder and on    *)
(* the two trackers are part of the steps.                                 *)
(***************************************************************************)
screenFrame == <<now, rotationVars, rate, fed, sweepSize, sweepAt>>

trackerUntouched ==
    UNCHANGED <<scannedPoints, lastCaptureTime, coverageGrid, cbCount,
                delivered, returned, deliveredShares, returnedShares, lastOp>>

estimatorUntouched ==
    UNCHANGED <<currentOrientation, lastTimestamp, lastDriftCorrection,
                latestAccelData, latestMagnetometerData, gyroSubscription,
                accelSubscription, magnetometerSubscription, listeners,
                orientationCbCount, deliveredOrientation,
                returnedOrientation, sensorOp, deliveredObject,
                returnedObject>>

\* The mount effects: new PhotoDataRecorder(), new OrientationTracker(...)
\* and its start(), new ScanTracker(...).
Mount ==
    /\ isMounted /\ ~effectsRun
    /\ effectsRun' = TRUE
    /\ StartCall
    /\ trackerUntouched
    /\ UNCHANGED <<isMounted, isScanning, isProcessing, isCapturing, photoUris,
                   photoInterval, inFlight, captured, scans, stopPc, tries,
                   stopData, errorTimer, handedOn, navigated>>
    /\ UNCHANGED <<recorderVars, screenFrame>>

\* handleScanStart, reached from the overlay shown while neither scanning
\* nor processing: both trackers reset, then startPhotoCapture (whose await
\* of startRecording() resumes at once).
HandleScanStart ==
    /\ effectsRun /\ isMounted
    /\ ~isScanning /\ ~isProcessing /\ ~navigated
    /\ scans < MaxScans
    /\ scans' = scans + 1
    \* orientationTracker.current?.reset()
    /\ currentOrientation' = EstimatedOrientation(0, 0, 0)
    /\ lastTimestamp' = 0
    /\ sensorOp' = SensorOp("reset", NoData, now)
    /\ deliveredObject' = Detached(deliveredObject, currentOrientation)
    /\ returnedObject' = Detached(returnedObject, currentOrientation)
    /\ UNCHANGED <<lastDriftCorrection, latestAccelData,
                   latestMagnetometerData, gyroSubscription, accelSubscription,
                   magnetometerSubscription, listeners, orientationCbCount,
                   deliveredOrientation, returnedOrientation>>
    \* scanTracker.current?.reset()
    /\ scannedPoints' = <<>>
    /\ lastCaptureTime' = 0
    /\ Notify(ScanCoverage(0, <<>>))
    /\ lastOp' = Op("reset", NoOrientation, now)
    /\ returned' = NoCoverage
    /\ returnedShares' = FALSE
    /\ UNCHANGED coverageGrid
    /\ isScanning' = TRUE
    \* startPhotoCapture
    /\ StartRecordingCall
    /\ photoUris' = <<>>
    /\ photoInterval' = "set"
    /\ UNCHANGED <<isMounted, effectsRun, isProcessing, isCapturing, inFlight,
                   captured, stopPc, tries, stopData, errorTimer, handedOn,
                   navigated>>
    /\ UNCHANGED screenFrame

\* A tick of the 200 ms interval on which takePhoto passes its guards: the
\* capture starts and takePhoto is suspended at "await takePictureAsync".
CaptureTimer ==
    /\ photoInterval = "set"
    /\ isMounted /\ ~isCapturing
    /\ isRecording
    /\ captured < MaxCaptures
    /\ isCapturing' = TRUE
    /\ inFlight' = inFlight + 1
    /\ captured' = captured + 1
    /\ UNCHANGED <<isMounted, effectsRun, isScanning, isProcessing, photoUris,
                   photoInterval, scans, stopPc, tries, stopData, errorTimer,
                   handedOn, navigated>>
    /\ UNCHANGED <<recorderVars, screenFrame, trackerVars, estimatorVars>>

\* takePictureAsync completes, with a photo that has a URI or without one
\* (or throwing), and takePhoto runs to its end.
CaptureCompletes(hasUri, orientation) ==
    /\ inFlight > 0
    /\ inFlight' = inFlight - 1
    /\ isCapturing' = FALSE
    /\ IF isMounted /\ hasUri
       THEN /\ photoUris' = Append(photoUris, captured)
            /\ RecordPhotoDataCall(captured, orientation)
       ELSE UNCHANGED <<photoUris, recorderVars>>
    /\ UNCHANGED <<isMounted, effectsRun, isScanning, isProcessing,
                   photoInterval, captured, scans, stopPc, tries, stopData,
                   errorTimer, handedOn, navigated>>
    /\ UNCHANGED <<screenFrame, trackerVars, estimatorVars>>

\* The test of the wait loop of handleScanStop, tries being t.
StillWaiting(t) ==
    isCapturing \/ (Len(photoUris) > Len(photoData) /\ t < maxTries)

\* handleScanStop past its loop: stopRecording(), then suspended at
\* "await flaskService.current.healthCheck()".
StopAndCheckHealth ==
    /\ StopRecordingCall
    /\ stopData' = photoData
    /\ stopPc' = "healthCheck"

\* handleScanStop, up to its first await.
HandleScanStop ==
    /\ effectsRun
    /\ isScanning /\ isMounted /\ ~isProcessing
    /\ isProcessing' = TRUE
    /\ isScanning' = FALSE
    /\ photoInterval' = "none"
    /\ tries' = 0
    /\ IF StillWaiting(0)
       THEN /\ stopPc' = "waiting"
            /\ UNCHANGED <<recorderVars, stopData>>
       ELSE StopAndCheckHealth
    /\ UNCHANGED <<isMounted, effectsRun, isCapturing, photoUris, inFlight,
                   captured, scans, errorTimer, handedOn, navigated>>
    /\ UNCHANGED <<screenFrame, trackerVars, estimatorVars>>

\* The 100 ms wait of the loop is over.  Past maxTries the value of tries
\* is not read any more and is not counted further.
WaitOver ==
    /\ stopPc = "waiting"
    /\ LET t == IF tries < maxTries THEN tries + 1 ELSE tries
       IN  /\ tries' = t
           /\ IF StillWaiting(t)
              THEN UNCHANGED <<recorderVars, stopData, stopPc>>
              ELSE StopAndCheckHealth
    /\ UNCHANGED <<isMounted, effectsRun, isScanning, isProcessing, isCapturing,
                   photoUris, photoInterval, inFlight, captured, scans,
                   errorTimer, handedOn, navigated>>
    /\ UNCHANGED <<screenFrame, trackerVars, estimatorVars>>

\* healthCheck() has returned: its failures are returned as false.
HealthCheckReturns(isHealthy) ==
    /\ stopPc = "healthCheck"
    /\ IF isHealthy
       THEN \* generateGLB(photoUrisRef.current, photoData) is called
            /\ handedOn' = [given |-> TRUE, photoUris |-> photoUris,
                            photoData |-> stopData]
            /\ stopPc' = "generateGLB"
            /\ UNCHANGED <<errorTimer, isProcessing>>
       ELSE \* throw, catch: setTimeout(navigate, 2000); finally
            /\ errorTimer' = [pending |-> TRUE, photoData |-> stopData]
            /\ isProcessing' = FALSE
            /\ stopPc' = "done"
            /\ UNCHANGED handedOn
    /\ UNCHANGED <<isMounted, effectsRun, isScanning, isCapturing, photoUris,
                   photoInterval, inFlight, captured, scans, tries, stopData,
                   navigated>>
    /\ UNCHANGED <<recorderVars, screenFrame, trackerVars, estimatorVars>>

\* generateGLB has returned a FlaskResponse: it never throws.  success
\* stands for result.success && result.download_url && result.session_id.
GenerateGLBReturns(success) ==
    /\ stopPc = "generateGLB"
    /\ IF success
       THEN /\ navigated' = TRUE
            /\ handedOn' = [given |-> TRUE, photoUris |-> photoUris,
                            photoData |-> stopData]
       ELSE UNCHANGED <<navigated, handedOn>>
    /\ isProcessing' = FALSE
    /\ stopPc' = "done"
    /\ UNCHANGED <<isMounted, effectsRun, isScanning, isCapturing, photoUris,
                   photoInterval, inFlight, captured, scans, tries, stopData,
                   errorTimer>>
    /\ UNCHANGED <<recorderVars, screenFrame, trackerVars, estimatorVars>>

\* The 2000 ms timer of the catch block fires: it navigates with
\* photoUrisRef.current as it is now and the photoData it closed over.
ErrorTimerFires ==
    /\ errorTimer.pending
    /\ errorTimer' = NoTimer
    /\ navigated' = TRUE
    /\ handedOn' = [given |-> TRUE, photoUris |-> photoUris,
                    photoData |-> errorTimer.photoData]
    /\ UNCHANGED <<isMounted, effectsRun, isScanning, isProcessing, isCapturing,
                   photoUris, photoInterval, inFlight, captured, scans, stopPc,
                   tries, stopData>>
    /\ UNCHANGED <<recorderVars, screenFrame, trackerVars, estimatorVars>>

\* The screen unmounts (the back button, or a navigation.replace): the
\* cleanups of the effects run.
Unmount ==
    /\ effectsRun /\ isMounted
    /\ isMounted' = FALSE
    /\ DestroyCall
    /\ photoInterval' = "none"
    \* orientationTracker.current?.stop()
    /\ listeners' =
          [sensor \in Sensors |->
              RemoveListener(listeners[sensor],
                  CASE sensor = "Gyroscope" -> gyroSubscription
                    [] sensor = "Accelerometer" -> accelSubscription
                    [] sensor = "Magnetometer" -> magnetometerSubscription)]
    /\ gyroSubscription' = Removed(gyroSubscription)
    /\ accelSubscription' = Removed(accelSubscription)
    /\ magnetometerSubscription' = Removed(magnetometerSubscription)
    /\ sensorOp' = SensorOp("stop", NoData, now)
    /\ UNCHANGED <<currentOrientation, lastTimestamp, lastDriftCorrection,
                   latestAccelData, latestMagnetometerData, orientationCbCount,
                   deliveredOrientation, returnedOrientation,
                   deliveredObject, returnedObject>>
    /\ UNCHANGED <<effectsRun, isScanning, isProcessing, isCapturing, photoUris,
                   inFlight, captured, scans, stopPc, tries, stopData,
                   errorTimer, handedOn, navigated>>
    /\ UNCHANGED <<screenFrame, trackerVars>>

ScreenNext ==
    \/ Mount
    \/ HandleScanStart
    \/ CaptureTimer
    \/ \E hasUri \in BOOLEAN, orientation \in PhotoOrientations :
          CaptureCompletes(hasUri, orientation)
    \/ HandleScanStop
    \/ WaitOver
    \/ \E isHealthy \in BOOLEAN : HealthCheckReturns(isHealthy)
    \/ \E success \in BOOLEAN : GenerateGLBReturns(success)
    \/ ErrorTimerFires
    \/ Unmount

ScreenSpec == Init /\ [][ScreenNext]_vars

(***************************************************************************)
(* A steady stream: the tracker is started once, the accelerometer may     *)
(* report before the first angular-velocity sample, and the gyroscope      *)
(* then reports the same angular velocity rate.omega every rate.dt         *)
(* milliseconds (1 ms is the update interval the tracker asks for).        *)
(***************************************************************************)
Spacings == {1, 50, 100, 150}

RateInit ==
    /\ InitTracker
    /\ sweepSize = 0
    /\ sweepAt = 0
    /\ InitEstimator
    /\ rate \in [omega : GyroData, dt : Spacings]
    /\ fed = 0
    /\ InitApp

RateStart ==
    /\ listeners["Gyroscope"] = 0
    /\ StartCall
    /\ UNCHANGED <<now, rate, fed, trackerVars, appVars>>

RateAccelerometer ==
    /\ fed = 0
    /\ listeners["Accelerometer"] > 0
    /\ \E data \in AccelData : AccelerometerSample(data)
    /\ UNCHANGED <<now, rate, fed, trackerVars, appVars>>

RateFeed ==
    /\ listeners["Gyroscope"] > 0
    /\ fed < MaxFed
    /\ now' = now + rate.dt
    /\ GyroscopeSample(rate.omega, now')
    /\ fed' = fed + 1
    /\ UNCHANGED <<rate, trackerVars, appVars>>

RateNext ==
    \/ RateStart
    \/ RateAccelerometer
    \/ RateFeed

RateSpec == RateInit /\ [][RateNext]_vars

(***************************************************************************)
(* Vocabulary of the properties.                                           *)
(***************************************************************************)
\* totalCoverage as getCoverage() would return it in this state.
CurrentCoverage == calculateCoverage(coverageGrid, scannedPoints).totalCoverage

\* The step is a call of the operation `name` (a step of Tick moves the clock).
CallStep(name) == lastOp'.op = name /\ now' = now

\* The look direction of the orientation lies in the band with its tolerance.
InBand(o) ==
    LET phi == orientationToSpherical(o).phi
    IN  /\ phi >= WHITE_DOME_PHI_START_WITH_TOLERANCE
        /\ phi <= WHITE_DOME_PHI_END_WITH_TOLERANCE

\* A call made now passes the throttle.
PastDwell == now - lastCaptureTime >= minDwellTime

Max2(a, b) == IF a >= b THEN a ELSE b

Timestamps(points) == { points[k].timestamp : k \in 1..Len(points) }

\* The grid cells the points of a history fall into.
DistinctCells(points) ==
    { <<gridPhi(points[k]), gridTheta(points[k])>> : k \in 1..Len(points) }
        \cap ((0..(gridResolution - 1)) \X (0..(gridResolution - 1)))

\* The percentage of the grid's cells that are in `cells`.
Percent(cells) == (Cardinality(cells) * 100) \div (gridResolution * gridResolution)

\* The coverage of a history, from the history alone.
PureCoverage(points) ==
    IF Len(points) = 0 THEN 0
    ELSE IF Percent(DistinctCells(points)) >= 100 - tolerance THEN 100
    ELSE Percent(DistinctCells(points))

(***************************************************************************)
(* C1: between two resets the totalCoverage reported, by onCoverageChange  *)
(* and by getCoverage, never decreases: in every step that is not a        *)
(* reset, what getCoverage would return does not decrease, and a value     *)
(* handed to the callback or returned by getCoverage in the step is at     *)
(* least the value reported before it.                                     *)
(***************************************************************************)
C1_CoverageNeverDecreases ==
    [][ lastOp'.op # "reset" =>
          LET before == Max2(CurrentCoverage, delivered.totalCoverage)
          IN  /\ CurrentCoverage' >= before
              /\ cbCount' # cbCount => delivered'.totalCoverage >= before
              /\ CallStep("getCoverage") => returned'.totalCoverage >= before ]_vars

\* A second accepted update has raised the coverage above that of the first.
C1_Witness ==
    /\ lastOp.op = "updateOrientation"
    /\ Cardinality(Timestamps(scannedPoints)) = 2
    /\ delivered.totalCoverage >
         PureCoverage(SelectSeq(scannedPoints,
             LAMBDA p : p.timestamp = scannedPoints[1].timestamp))
    /\ PureCoverage(SelectSeq(scannedPoints,
             LAMBDA p : p.timestamp = scannedPoints[1].timestamp)) > 0

(***************************************************************************)
(* C2: reset() is the only way coverage returns to zero: an accepted       *)
(* (in-band, not throttled) updateOrientation leaves a coverage above 0,   *)
(* a coverage above 0 stays above 0 in every step that is not a reset,     *)
(* and right after reset() the coverage is 0 and the history empty.        *)
(***************************************************************************)
C2_OnlyResetZeroesCoverage ==
    [][ /\ (CallStep("updateOrientation") /\ PastDwell
              /\ InBand(lastOp'.orientation)) => CurrentCoverage' > 0
        /\ (CurrentCoverage > 0 /\ ~CallStep("reset")) => CurrentCoverage' > 0
        /\ CallStep("reset") =>
              (CurrentCoverage' = 0 /\ scannedPoints' = <<>>) ]_vars

\* An update next to the pole (phi = 179.5 deg) was accepted and left coverage.
C2_Witness ==
    /\ lastOp = Op("updateOrientation", Orientation(3, 0), lastCaptureTime)
    /\ Len(scannedPoints) > 0
    /\ scannedPoints[Len(scannedPoints)].timestamp = lastCaptureTime
    /\ CurrentCoverage > 0

(***************************************************************************)
(* C3: reset(), in any state, empties the history, sets the throttle       *)
(* timestamp to 0 and invokes the callback once with exactly               *)
(* {totalCoverage: 0, scannedPoints: []}; the updateOrientation that       *)
(* follows a reset passes the throttle whatever the time of the update     *)
(* accepted before the reset.                                              *)
(***************************************************************************)
C3_ResetClearsAndNotifies ==
    [][ /\ CallStep("reset") =>
              /\ scannedPoints' = <<>>
              /\ lastCaptureTime' = 0
              /\ cbCount' = cbCount + 1
              /\ delivered' = ScanCoverage(0, <<>>)
        /\ (lastOp.op = "reset" /\ CallStep("updateOrientation")) =>
              /\ lastCaptureTime' = now
              /\ InBand(lastOp'.orientation) =>
                    (cbCount' = cbCount + 1 /\ Len(scannedPoints') > 0) ]_vars

\* An update, a reset and a second, accepted update in the same millisecond.
C3_Witness ==
    /\ cbCount = 3
    /\ now = StartTime
    /\ lastOp.op = "updateOrientation"
    /\ Len(scannedPoints) > 0
    /\ delivered.totalCoverage > 0

(***************************************************************************)
(* C4: throttle.  An in-band updateOrientation made less than minDwellTime *)
(* after an accepted in-band one records no point, fires no callback and   *)
(* leaves the throttle timestamp; so the accepted updates of a history are *)
(* at least minDwellTime apart, one per timestamp.  An in-band call made   *)
(* minDwellTime or more after the previous updateOrientation call, or as   *)
(* the first call, is accepted.                                            *)
(***************************************************************************)
C4_Throttle ==
    [][ (CallStep("updateOrientation") /\ InBand(lastOp'.orientation)) =>
          /\ (/\ lastOp.op = "updateOrientation"
              /\ InBand(lastOp.orientation)
              /\ lastOp.at \in Timestamps(scannedPoints)
              /\ now - lastOp.at < minDwellTime)
                => UNCHANGED <<scannedPoints, lastCaptureTime, cbCount, delivered>>
          /\ (\/ lastOp.op = "constructor"
              \/ lastOp.op = "updateOrientation" /\ now - lastOp.at >= minDwellTime)
                => /\ lastCaptureTime' = now
                   /\ cbCount' = cbCount + 1
                   /\ now \in Timestamps(scannedPoints')
                   /\ Len(scannedPoints') > Len(scannedPoints)
          /\ \A s, t \in Timestamps(scannedPoints') :
                s = t \/ s - t >= minDwellTime \/ t - s >= minDwellTime
          /\ \A t \in Timestamps(scannedPoints') :
                Cardinality({ k \in 1..Len(scannedPoints') :
                                scannedPoints'[k].timestamp = t })
                    <= Len(fovSamplePattern) ]_vars

\* Two updates accepted minDwellTime apart, then an in-band call that was dropped.
C4_Witness ==
    /\ lastOp.op = "updateOrientation"
    /\ InBand(lastOp.orientation)
    /\ lastOp.at > lastCaptureTime
    /\ Timestamps(scannedPoints) = { lastCaptureTime - minDwellTime, lastCaptureTime }

(***************************************************************************)
(* C5: an updateOrientation whose look direction is out of the band is a   *)
(* no-op on coverage: the history is unchanged, getCoverage() would return *)
(* what it returned before, the callback is not invoked.                   *)
(***************************************************************************)
C5_OutOfBandNoOp ==
    [][ (CallStep("updateOrientation") /\ ~InBand(lastOp'.orientation)) =>
          /\ UNCHANGED <<scannedPoints, cbCount, delivered>>
          /\ CurrentCoverage' = CurrentCoverage ]_vars

\* An out-of-band call passed the throttle, a history being there.
C5_Witness ==
    /\ lastOp.op = "updateOrientation"
    /\ ~InBand(lastOp.orientation)
    /\ lastCaptureTime = lastOp.at
    /\ Len(scannedPoints) > 0
    /\ scannedPoints[Len(scannedPoints)].timestamp < lastCaptureTime

(***************************************************************************)
(* C6: the callback is invoked exactly once by an updateOrientation that   *)
(* is neither throttled nor out of band, exactly once by reset(), and by   *)
(* nothing else.                                                           *)
(***************************************************************************)
C6_CallbackExactlyOnce ==
    [][ cbCount' - cbCount =
          IF \/ CallStep("updateOrientation") /\ PastDwell
                  /\ InBand(lastOp'.orientation)
             \/ CallStep("reset")
          THEN 1 ELSE 0 ]_vars

\* Two invocations, by a reset and by an accepted update, then a throttled call.
C6_Witness ==
    /\ cbCount = 2
    /\ lastOp.op = "updateOrientation"
    /\ InBand(lastOp.orientation)
    /\ lastOp.at > lastCaptureTime
    /\ Cardinality(Timestamps(scannedPoints)) = 1

(***************************************************************************)
(* C7: getCoverage() returns the value the callback was last handed (the   *)
(* same totalCoverage, the same points), and changes neither the history   *)
(* nor the throttle timestamp nor the result of the next getCoverage().    *)
(***************************************************************************)
C7_GetCoverageMatchesCallback ==
    [][ CallStep("getCoverage") =>
          /\ cbCount > 0 => returned' = delivered
          /\ UNCHANGED <<scannedPoints, lastCaptureTime, cbCount, delivered>>
          /\ lastOp.op = "getCoverage" => returned' = returned
          /\ CurrentCoverage' = returned'.totalCoverage ]_vars

\* getCoverage() right after an accepted update that left coverage.
C7_Witness ==
    /\ lastOp.op = "getCoverage"
    /\ cbCount > 0
    /\ returned = delivered
    /\ returned.totalCoverage > 0
    /\ lastCaptureTime = now

(***************************************************************************)
(* C8: the totalCoverage reported is a function of the point history       *)
(* alone: what the callback was handed, what getCoverage returned and what *)
(* it would return are the coverage of the distinct cells the history      *)
(* falls into, and the cells of the grid that are true after a             *)
(* computation are exactly those cells.                                    *)
(***************************************************************************)
C8_CoveragePureFunctionOfHistory ==
    /\ CurrentCoverage = PureCoverage(scannedPoints)
    /\ cbCount > 0 =>
          /\ delivered.scannedPoints = scannedPoints
          /\ delivered.totalCoverage = PureCoverage(scannedPoints)
    /\ returned # NoCoverage =>
          returned = ScanCoverage(PureCoverage(scannedPoints), scannedPoints)
    /\ Len(scannedPoints) > 0 => coverageGrid = DistinctCells(scannedPoints)

\* An update, a reset, an update, then getCoverage(): the grid was used before.
C8_Witness ==
    /\ cbCount = 3
    /\ lastOp.op = "getCoverage"
    /\ Len(scannedPoints) > 0
    /\ returned.totalCoverage = PureCoverage(scannedPoints)
    /\ returned.totalCoverage > 0

(***************************************************************************)
(* C9: every totalCoverage reported lies in 0..100; it is the percentage   *)
(* of visited cells when that is below 96 and exactly 100 when that is 96  *)
(* or more, so no value of 96..99 is reported.                             *)
(***************************************************************************)
ReportedOk(coverage) ==
    LET raw == Percent(DistinctCells(coverage.scannedPoints))
    IN  /\ coverage.totalCoverage >= 0
        /\ coverage.totalCoverage <= 100
        /\ raw < 96 => coverage.totalCoverage = raw
        /\ raw >= 96 => coverage.totalCoverage = 100
        /\ ~(coverage.totalCoverage >= 96 /\ coverage.totalCoverage < 100)

C9_CoverageRangeAndSnap ==
    /\ cbCount > 0 => ReportedOk(delivered)
    /\ returned # NoCoverage => ReportedOk(returned)

\* 96 to 99 of the 100 cells are visited and 100 is reported.
C9_Witness ==
    /\ cbCount > 0
    /\ Cardinality(DistinctCells(delivered.scannedPoints)) \in 96..99
    /\ delivered.totalCoverage = 100
    /\ returned = delivered

(***************************************************************************)
(* C10: full-sweep completion: once the sweep has fed all its              *)
(* orientations, the totalCoverage reported is exactly 100.                *)
(***************************************************************************)
SweepDone == sweepAt = sweepSize * sweepSize

C10_FullSweepReaches100 ==
    SweepDone => (delivered.totalCoverage = 100 /\ CurrentCoverage = 100)

(***************************************************************************)
(* Vocabulary of the properties on the point history.                      *)
(***************************************************************************)
\* The distance of two azimuths around the circle.
ThetaDistance(a, b) ==
    LET d == NormalizeTheta(a - b)
    IN  IF d <= PI_U THEN d ELSE TWO_PI - d

\* The step is an updateOrientation of the centred look direction that is
\* accepted by a tracker without history.
CentredFirstUpdate ==
    /\ CallStep("updateOrientation")
    /\ lastOp'.orientation = CentredOrientation
    /\ orientationToSpherical(CentredOrientation) =
          [phi |-> (5 * PI_U) \div 6, theta |-> 0]
    /\ scannedPoints = <<>>
    /\ PastDwell

\* The point lies in the band [WHITE_DOME_PHI_START, WHITE_DOME_PHI_END].
InBandProper(point) ==
    point.phi >= WHITE_DOME_PHI_START /\ point.phi <= WHITE_DOME_PHI_END

(***************************************************************************)
(* C11 (as stated): after a single accepted updateOrientation of the       *)
(* centred look direction (phi = 5*pi/6, theta = 0) on an empty tracker,   *)
(* 0 < totalCoverage < 100 and every point of scannedPoints is within      *)
(* FOV/2 of the centre in phi and in theta, and within the band.           *)
(***************************************************************************)
C11_CentredFootprintWithinHalfFov ==
    [][ CentredFirstUpdate =>
          /\ delivered'.totalCoverage > 0
          /\ delivered'.totalCoverage < 100
          /\ \A k \in 1..Len(scannedPoints') :
                /\ Abs(scannedPoints'[k].phi - (5 * PI_U) \div 6) <= HALF_FOV
                /\ ThetaDistance(scannedPoints'[k].theta, 0) <= HALF_FOV
                /\ InBandProper(scannedPoints'[k]) ]_vars

(***************************************************************************)
(* C11 (amended): after that update 0 < totalCoverage < 100 and every      *)
(* point of scannedPoints is within FOV/2 of the centre in phi, within     *)
(* (FOV/2) / sin(centre phi) of the centre in theta (FOV/2 of arc along    *)
(* the centre's parallel; 75 degrees of azimuth at phi = 5*pi/6), and      *)
(* within the band.                                                        *)
(***************************************************************************)
C11_CentredFootprintWithinScaledHalfFov ==
    [][ CentredFirstUpdate =>
          /\ delivered'.totalCoverage > 0
          /\ delivered'.totalCoverage < 100
          /\ \A k \in 1..Len(scannedPoints') :
                /\ Abs(scannedPoints'[k].phi - (5 * PI_U) \div 6) <= HALF_FOV
                /\ 1000 * ThetaDistance(scannedPoints'[k].theta, 0)
                      <= HalfFovOverSin((5 * PI_U) \div 6)
                /\ InBandProper(scannedPoints'[k]) ]_vars

\* The centred update is the only one accepted so far; some of its points
\* are farther than FOV/2 from the centre in theta.
C11_Witness ==
    /\ lastOp = Op("updateOrientation", CentredOrientation, lastCaptureTime)
    /\ cbCount = 1
    /\ Len(scannedPoints) > 0
    /\ delivered.totalCoverage > 0
    /\ delivered.totalCoverage < 100
    /\ \E k \in 1..Len(scannedPoints) :
          ThetaDistance(scannedPoints[k].theta, 0) > HALF_FOV

(***************************************************************************)
(* C12: every ScanPoint of the history has phi in [0, pi] and in the band  *)
(* with its tolerance, and theta in [0, 2*pi), also when the theta offset  *)
(* wraps around the circle several times next to phi = pi; the footprint   *)
(* samples outside are not stored.                                         *)
(***************************************************************************)
StoredPointOk(point) ==
    /\ point.phi >= 0
    /\ point.phi <= PI_U
    /\ point.phi >= WHITE_DOME_PHI_START_WITH_TOLERANCE
    /\ point.phi <= WHITE_DOME_PHI_END_WITH_TOLERANCE
    /\ point.theta >= 0
    /\ point.theta < TWO_PI

C12_StoredPointsInRange ==
    /\ \A k \in 1..Len(scannedPoints) : StoredPointOk(scannedPoints[k])
    /\ \A k \in 1..Len(delivered.scannedPoints) :
          StoredPointOk(delivered.scannedPoints[k])

\* The history is the footprint of one update at phi = 179.5 degrees: the
\* smallest theta offset is more than a full circle, and the samples beyond
\* phi = pi were dropped.
C12_Witness ==
    /\ lastOp = Op("updateOrientation", Orientation(3, 0), lastCaptureTime)
    /\ Timestamps(scannedPoints) = {lastCaptureTime}
    /\ Len(scannedPoints) < Len(fovSamplePattern)
    /\ HalfFovOverSin(orientationToSpherical(Orientation(3, 0)).phi)
          > 1000 * (samples - 1) * TWO_PI
    /\ \E k \in 1..Len(scannedPoints) :
          scannedPoints[k].theta < orientationToSpherical(Orientation(3, 0)).theta

\* The directions <<phi, theta>> of a sequence of points, in its order.
Directions(points) ==
    [k \in 1..Len(points) |-> <<points[k].phi, points[k].theta>>]

\* The points of a history that carry the timestamp t, in its order.
StampedAt(points, t) == SelectSeq(points, LAMBDA p : p.timestamp = t)

\* The footprint samples of an orientation's look direction.
FootprintOf(o) ==
    calculateFOVCoverage(orientationToSpherical(o).phi,
                         orientationToSpherical(o).theta, 0)

\* The step is an updateOrientation that is neither throttled nor out of band.
AcceptedUpdateStep ==
    CallStep("updateOrientation") /\ PastDwell /\ InBand(lastOp'.orientation)

(***************************************************************************)
(* C13: the history is append-only between resets.  A step that is not a   *)
(* reset leaves every entry in place and unchanged; an accepted update     *)
(* appends points stamped with the time of the call at the end; an         *)
(* accepted update of the look direction accepted just before (the one     *)
(* whose footprint the history holds under the last timestamp) appends     *)
(* the same directions a second time, the history grows and totalCoverage  *)
(* stays.                                                                  *)
(***************************************************************************)
C13_HistoryAppendOnly ==
    [][ /\ ~CallStep("reset") =>
              /\ Len(scannedPoints') >= Len(scannedPoints)
              /\ SubSeq(scannedPoints', 1, Len(scannedPoints)) = scannedPoints
        /\ ~(AcceptedUpdateStep \/ CallStep("reset")) =>
              scannedPoints' = scannedPoints
        /\ AcceptedUpdateStep =>
              /\ Len(scannedPoints') > Len(scannedPoints)
              /\ \A k \in (Len(scannedPoints) + 1)..Len(scannedPoints') :
                    scannedPoints'[k].timestamp = now
        /\ (/\ AcceptedUpdateStep
            /\ lastCaptureTime \in Timestamps(scannedPoints)
            /\ Directions(FootprintOf(lastOp'.orientation))
                  = Directions(StampedAt(scannedPoints, lastCaptureTime))) =>
              /\ Directions(SubSeq(scannedPoints', Len(scannedPoints) + 1,
                                   Len(scannedPoints')))
                    = Directions(StampedAt(scannedPoints, lastCaptureTime))
              /\ Len(scannedPoints') =
                    Len(scannedPoints)
                      + Len(StampedAt(scannedPoints, lastCaptureTime))
              /\ CurrentCoverage' = CurrentCoverage
              /\ delivered'.totalCoverage = delivered.totalCoverage ]_vars

\* The same orientation was accepted twice: the history holds its footprint
\* twice, under two timestamps.
C13_Witness ==
    /\ lastOp.op = "updateOrientation"
    /\ lastOp.at = lastCaptureTime
    /\ Timestamps(scannedPoints) = { lastCaptureTime - minDwellTime, lastCaptureTime }
    /\ Directions(StampedAt(scannedPoints, lastCaptureTime))
          = Directions(StampedAt(scannedPoints, lastCaptureTime - minDwellTime))
    /\ Len(scannedPoints) = 2 * Len(StampedAt(scannedPoints, lastCaptureTime))
    /\ CurrentCoverage = PureCoverage(StampedAt(scannedPoints, lastCaptureTime))

(***************************************************************************)
(* Vocabulary of the properties on the OrientationTracker.                 *)
(***************************************************************************)
\* The step is the call or sensor event `name` (a step of Elapse moves the
\* clock).
EventStep(name) == sensorOp'.op = name /\ now' = now

ZeroOrientation == EstimatedOrientation(0, 0, 0)

\* The step changes neither the angles nor what the callback has seen.
OrientationUntouched ==
    UNCHANGED <<currentOrientation, orientationCbCount, deliveredOrientation>>

\* The orientation after the sample `data` is integrated over deltaMs.
Advanced(orientation, data, deltaMs) ==
    [pitch |-> orientation.pitch + data.x * deltaMs,
     yaw   |-> orientation.yaw + data.y * deltaMs,
     roll  |-> orientation.roll + data.z * deltaMs]

(***************************************************************************)
(* C14: the first angular-velocity sample handled after start() or after   *)
(* reset() only records lastTimestamp: it is not integrated and fires no   *)
(* callback, whatever time has passed since the previous sample, also      *)
(* when the tracker was stopped and started again without a reset.         *)
(***************************************************************************)
C14_FirstSampleOnlySeeds ==
    [][ (sensorOp.op \in {"start", "reset"} /\ EventStep("gyroscope")) =>
          /\ lastTimestamp' = now
          /\ OrientationUntouched ]_vars

(***************************************************************************)
(* C15: stale-gap rejection.  A sample whose delta-t from the previous     *)
(* sample exceeds 100 ms leaves pitch, yaw and roll, fires no callback     *)
(* and still moves lastTimestamp, so that the next sample's delta-t is     *)
(* measured from it; a sample with a delta-t of exactly 100 ms is          *)
(* integrated.                                                             *)
(***************************************************************************)
C15_StaleGapRejection ==
    [][ (EventStep("gyroscope") /\ lastTimestamp # 0) =>
          /\ lastTimestamp' = now
          /\ now - lastTimestamp > 100 => OrientationUntouched
          /\ now - lastTimestamp = 100 =>
                /\ currentOrientation' =
                      Advanced(currentOrientation, sensorOp'.data, 100)
                /\ orientationCbCount' = orientationCbCount + 1
          /\ (sensorOp.op = "gyroscope" /\ now - sensorOp.at <= 100) =>
                currentOrientation' =
                   Advanced(currentOrientation, sensorOp'.data, now - sensorOp.at) ]_vars

\* One sample was integrated; the last one, of another angular velocity,
\* came after a gap and was rejected: it moved lastTimestamp only.
C15_Witness ==
    /\ sensorOp.op = "gyroscope"
    /\ sensorOp.at = now
    /\ lastTimestamp = now
    /\ orientationCbCount = 1
    /\ deliveredOrientation = currentOrientation
    /\ \E data \in GyroData \ {sensorOp.data} :
          currentOrientation = Advanced(ZeroOrientation, data, ElapseMs)

(***************************************************************************)
(* C16: integration.  From the zero orientation, a constant angular        *)
(* velocity fed at a fixed spacing dt <= 100 ms yields, after the sample   *)
(* that seeds lastTimestamp and n samples more, pitch = wx * n * dt,       *)
(* yaw = wy * n * dt and roll = wz * n * dt.                               *)
(***************************************************************************)
C16_IntegrationOfConstantRate ==
    (fed >= 1 /\ rate.dt <= 100) =>
        /\ currentOrientation.pitch = rate.omega.x * (fed - 1) * rate.dt
        /\ currentOrientation.yaw = rate.omega.y * (fed - 1) * rate.dt
        /\ currentOrientation.roll = rate.omega.z * (fed - 1) * rate.dt

\* Twenty samples were integrated at 100 ms and the three angles have moved.
C16_Witness ==
    /\ fed = 21
    /\ rate.dt = 100
    /\ currentOrientation.pitch = rate.omega.x * 2000
    /\ currentOrientation.yaw = rate.omega.y * 2000
    /\ currentOrientation.roll = rate.omega.z * 2000
    /\ currentOrientation.pitch # 0
    /\ currentOrientation.yaw # 0
    /\ currentOrientation.roll # 0
    /\ orientationCbCount = 20

\* The step is a gyroscope sample that is integrated: not the one seeding
\* lastTimestamp, not one after a stale gap.
IntegratedStep ==
    /\ EventStep("gyroscope")
    /\ lastTimestamp # 0
    /\ now - lastTimestamp <= 100

(***************************************************************************)
(* C17: onOrientationChange is invoked exactly once, within the step and   *)
(* with the angles after the integration, by each angular-velocity sample  *)
(* that is integrated, and by nothing else: not by a sample seeding        *)
(* lastTimestamp, a sample after a stale gap, an acceleration or           *)
(* magnetic-field sample, reset(), start(), stop() or                      *)
(* getCurrentOrientation().                                                *)
(***************************************************************************)
C17_OrientationCallbackExactlyOnce ==
    [][ /\ orientationCbCount' - orientationCbCount =
              IF IntegratedStep THEN 1 ELSE 0
        /\ IntegratedStep =>
              /\ deliveredOrientation' = currentOrientation'
              /\ deliveredOrientation' =
                    Advanced(currentOrientation, sensorOp'.data,
                             now - lastTimestamp)
        /\ ~IntegratedStep => deliveredOrientation' = deliveredOrientation ]_vars

\* Two samples were integrated and reported; the reset() that followed
\* zeroed the angles and reported nothing.
C17_Witness ==
    /\ sensorOp.op = "reset"
    /\ orientationCbCount = 2
    /\ currentOrientation = ZeroOrientation
    /\ deliveredOrientation.pitch # 0
    /\ latestAccelData # NoData
    /\ latestMagnetometerData # NoData

(***************************************************************************)
(* C18: reset(), in any state, zeroes the angles, so that                  *)
(* getCurrentOrientation() returns {pitch: 0, yaw: 0, roll: 0}, and clears *)
(* lastTimestamp, so that the next sample seeds it and is not integrated;  *)
(* a second reset() right after the first changes nothing.                 *)
(***************************************************************************)
C18_ResetZeroesAndReseeds ==
    [][ /\ EventStep("reset") =>
              /\ currentOrientation' = ZeroOrientation
              /\ lastTimestamp' = 0
        /\ (sensorOp.op = "reset" /\ EventStep("getCurrentOrientation")) =>
              returnedOrientation' = ZeroOrientation
        /\ (sensorOp.op = "reset" /\ EventStep("gyroscope")) =>
              /\ lastTimestamp' = now
              /\ currentOrientation' = ZeroOrientation
              /\ OrientationUntouched
        /\ (sensorOp.op = "reset" /\ EventStep("reset")) =>
              UNCHANGED <<currentOrientation, lastTimestamp, lastDriftCorrection,
                          latestAccelData, latestMagnetometerData,
                          gyroSubscription, accelSubscription,
                          magnetometerSubscription, listeners,
                          orientationCbCount, deliveredOrientation,
                          returnedOrientation>> ]_vars

\* Angles were integrated, reset() was called, and the sample after it has
\* only seeded lastTimestamp.
C18_Witness ==
    /\ sensorOp.op = "gyroscope"
    /\ lastTimestamp = now
    /\ currentOrientation = ZeroOrientation
    /\ orientationCbCount > 0
    /\ deliveredOrientation.yaw # 0
    /\ \E data \in GyroData :
          deliveredOrientation = Advanced(ZeroOrientation, data, ElapseMs)
    /\ now = StartTime + 2 * ElapseMs

(***************************************************************************)
(* C19: drift correction is applied at a bounded cadence while             *)
(* angular-velocity samples keep arriving: with a non-zero acceleration    *)
(* vector cached before the stream, once samples have been integrated for  *)
(* more than the cadence interval (2 s) a correction has been applied,     *)
(* the last one no longer ago than the cadence interval and one sample     *)
(* spacing.                                                                *)
(***************************************************************************)
C19_DriftCorrectionAtCadence ==
    (/\ rate.dt <= 100
     /\ latestAccelData # NoData
     /\ (fed - 1) * rate.dt > driftCorrectionInterval) =>
        /\ lastDriftCorrection # 0
        /\ now - lastDriftCorrection <= driftCorrectionInterval + rate.dt

(***************************************************************************)
(* C20: an acceleration or magnetic-field sample only overwrites the       *)
(* cached latest vector of its sensor: pitch, yaw, roll, lastTimestamp     *)
(* and everything else of the tracker are left, the callback is not        *)
(* invoked, and the vector cached is the sample alone.                     *)
(***************************************************************************)
C20_CachedVectorsOnly ==
    [][ /\ EventStep("accelerometer") =>
              /\ latestAccelData' = sensorOp'.data
              /\ UNCHANGED <<currentOrientation, lastTimestamp,
                             lastDriftCorrection, latestMagnetometerData,
                             orientationCbCount, deliveredOrientation>>
        /\ EventStep("magnetometer") =>
              /\ latestMagnetometerData' = sensorOp'.data
              /\ UNCHANGED <<currentOrientation, lastTimestamp,
                             lastDriftCorrection, latestAccelData,
                             orientationCbCount, deliveredOrientation>> ]_vars

\* An acceleration sample has replaced the one cached before, some time
\* after the last integrated angular-velocity sample.
C20_Witness ==
    /\ sensorOp.op = "accelerometer"
    /\ latestAccelData = sensorOp.data
    /\ latestMagnetometerData # NoData
    /\ lastTimestamp # 0
    /\ lastTimestamp < now
    /\ currentOrientation # ZeroOrientation
    /\ deliveredOrientation = currentOrientation

(***************************************************************************)
(* C21: the value handed to onOrientationChange gives no way to write the  *)
(* estimator and is stable: a consumer writing into the object it          *)
(* received changes neither the tracker's angles nor what                  *)
(* getCurrentOrientation() returns, and the object it keeps is not         *)
(* changed by a later sample.                                              *)
(***************************************************************************)
C21_DeliveredValueIsolated ==
    [][ orientationCbCount > 0 =>
          /\ EventStep("writeDelivered") => currentOrientation' = currentOrientation
          /\ EventStep("gyroscope") =>
                (IF deliveredObject.live THEN currentOrientation'
                                         ELSE deliveredObject.content)
                   = ContentOf(deliveredObject) ]_vars

(***************************************************************************)
(* C23: getCurrentOrientation() returns a copy: a consumer writing into    *)
(* the returned object changes neither the estimator's state nor what a    *)
(* later getCurrentOrientation() returns, and the returned object is not   *)
(* changed by later samples or by reset().                                 *)
(***************************************************************************)
C23_ReturnedValueIsCopy ==
    [][ HasReturned =>
          /\ EventStep("writeReturned") =>
                UNCHANGED <<currentOrientation, lastTimestamp,
                            orientationCbCount, deliveredOrientation,
                            deliveredObject>>
          /\ (sensorOp.op = "writeReturned" /\ EventStep("getCurrentOrientation")) =>
                /\ returnedOrientation' = currentOrientation
                /\ ContentOf(returnedObject) # returnedOrientation' =>
                      ~returnedObject'.live
          /\ (EventStep("gyroscope") \/ EventStep("reset")) =>
                (IF returnedObject.live THEN currentOrientation'
                                        ELSE returnedObject.content)
                   = ContentOf(returnedObject) ]_vars

\* The consumer has written into the object returned to it, a sample was
\* integrated since: the object holds what was written, the angles do not.
C23_Witness ==
    /\ sensorOp.op = "gyroscope"
    /\ orientationCbCount > 0
    /\ HasReturned
    /\ deliveredOrientation = currentOrientation
    /\ ContentOf(returnedObject) \in ConsumerValues
    /\ currentOrientation \notin ConsumerValues
    /\ \E data \in GyroData :
          currentOrientation = Advanced(ZeroOrientation, data, ElapseMs)

C24_StopDetachesEveryListener ==
    /\ sensorOp.op = "stop" => \A sensor \in Sensors : listeners[sensor] = 0
    /\ listeners["Gyroscope"] <= 1

(***************************************************************************)
(* C25: when a sample's timestamp is not lower than the previous one, an   *)
(* integration step uses 0 <= delta-t <= 100 ms, so the sample changes     *)
(* each angle by at most |w| * 0.1 s; when the timestamp is lower than the *)
(* previous one nothing guards the step: the negative delta-t is           *)
(* integrated, the callback fires and the timestamp is recorded.           *)
(***************************************************************************)
C25_IntegrationStepBounds ==
    [][ (EventStep("gyroscope") /\ lastTimestamp # 0) =>
          LET deltaMs == now - lastTimestamp
              data    == sensorOp'.data
          IN  /\ (deltaMs >= 0 /\ orientationCbCount' # orientationCbCount) =>
                    /\ deltaMs <= staleGapMs
                    /\ currentOrientation' =
                          Advanced(currentOrientation, data, deltaMs)
                    /\ Abs(currentOrientation'.pitch - currentOrientation.pitch)
                          <= Abs(data.x) * staleGapMs
                    /\ Abs(currentOrientation'.yaw - currentOrientation.yaw)
                          <= Abs(data.y) * staleGapMs
                    /\ Abs(currentOrientation'.roll - currentOrientation.roll)
                          <= Abs(data.z) * staleGapMs
              /\ deltaMs < 0 =>
                    /\ currentOrientation' =
                          Advanced(currentOrientation, data, deltaMs)
                    /\ orientationCbCount' = orientationCbCount + 1
                    /\ deliveredOrientation' = currentOrientation'
                    /\ lastTimestamp' = now ]_vars

\* A sample stamped 100 ms before the previous one was integrated: the angles
\* went against the sign of the angular velocity.
C25_Witness ==
    /\ sensorOp.op = "gyroscope"
    /\ orientationCbCount = 1
    /\ lastTimestamp = now
    /\ \E data \in GyroData :
          /\ sensorOp.data = data
          /\ currentOrientation = Advanced(ZeroOrientation, data, -2 * ElapseMs)

(***************************************************************************)
(* C26: an updateOrientation that passes the throttle moves the throttle   *)
(* timestamp before the band test: an out-of-band call that passes the     *)
(* throttle sets lastCaptureTime to its time (and does nothing else), and  *)
(* an in-band call made less than minDwellTime after it is dropped.        *)
(***************************************************************************)
C26_OutOfBandCallArmsThrottle ==
    [][ CallStep("updateOrientation") =>
          /\ (PastDwell /\ ~InBand(lastOp'.orientation)) =>
                /\ lastCaptureTime' = now
                /\ UNCHANGED <<scannedPoints, cbCount, delivered>>
          /\ ( /\ lastOp.op = "updateOrientation"
               /\ ~InBand(lastOp.orientation)
               /\ lastCaptureTime = lastOp.at
               /\ now - lastOp.at < minDwellTime
               /\ InBand(lastOp'.orientation) ) =>
                UNCHANGED <<scannedPoints, lastCaptureTime, cbCount, delivered>> ]_vars

\* On a tracker that has accepted nothing, an in-band call was dropped in the
\* millisecond an out-of-band call had stamped.
C26_Witness ==
    /\ lastOp.op = "updateOrientation"
    /\ InBand(lastOp.orientation)
    /\ lastOp.at = now
    /\ lastCaptureTime = now
    /\ scannedPoints = <<>>
    /\ cbCount = 0

(***************************************************************************)
(* C27: in PhotoDataRecorder the i-th record (from 0) has index i and      *)
(* currentIndex is the number of records; recordPhotoData while not        *)
(* recording changes nothing; stopRecording returns a copy of the records  *)
(* and keeps them: only startRecording and destroy clear them.             *)
(***************************************************************************)
C27_RecordsAreIndexed ==
    /\ [](/\ currentIndex = Len(photoData)
          /\ \A i \in 1..Len(photoData) : photoData[i].index = i - 1)
    /\ [][ /\ (recorderOp' = "recordPhotoData" /\ ~isRecording) =>
                UNCHANGED <<isRecording, photoData, currentIndex, recordedData>>
           /\ recorderOp' = "stopRecording" =>
                /\ recordedData' = photoData
                /\ photoData' = photoData
                /\ ~isRecording'
           /\ (Len(photoData) > 0 /\ Len(photoData') < Len(photoData)) =>
                recorderOp' \in {"startRecording", "destroy"}
           /\ recorderOp' \in {"startRecording", "destroy"} =>
                (photoData' = <<>> /\ recordedData' = recordedData) ]_vars

\* A recording was stopped with MaxPhotos records.
C27_Witness ==
    /\ recorderOp = "stopRecording"
    /\ Len(photoData) = MaxPhotos
    /\ recordedData = photoData
    /\ photoData[MaxPhotos].index = MaxPhotos - 1

(***************************************************************************)
(* C28: once stopRecording() or destroy() of RotationDataRecorder has      *)
(* returned (and until startRecording is called again), isRecording is     *)
(* false, no interval and no DeviceMotion listener of the recorder is      *)
(* live and no data point is appended, whatever startRecording calls were  *)
(* suspended at an await at the time; and at no time is more than one      *)
(* interval or more than one listener of the recorder live.                *)
(***************************************************************************)
C28_StoppedRecorderStaysStopped ==
    /\ [](rotationOp \in {"stopRecording", "destroy"} =>
             /\ ~rotationIsRecording
             /\ timers = 0
             /\ motionListeners = 0)
    /\ [](timers <= 1 /\ motionListeners <= 1)
    /\ [][ (rotationOp \in {"stopRecording", "destroy"} /\ rotationOp' = rotationOp
              /\ rotationVars' # rotationVars /\ suspended' = suspended) =>
                Len(rotationData') <= Len(rotationData) ]_vars

(***************************************************************************)
(* C29: in CameraScreen2 at most one takePictureAsync is in flight, and    *)
(* whatever handleScanStop hands on (to generateGLB, to GalleryScreen2)    *)
(* has as many photo URIs as photo data records, the i-th record carrying  *)
(* the i-th URI, for every interleaving of the capture timer, the capture  *)
(* completion, the scan stop and the unmount.                              *)
(***************************************************************************)
C29_HandedOnListsAgree ==
    /\ inFlight <= 1
    /\ handedOn.given =>
          /\ Len(handedOn.photoUris) = Len(handedOn.photoData)
          /\ \A i \in 1..Len(handedOn.photoData) :
                handedOn.photoData[i].photoUri = handedOn.photoUris[i]

(***************************************************************************)
(* C30: a handleScanStop that passed its guard and has run to its end, the *)
(* screen still mounted and no timer of it pending, has navigated to       *)
(* GalleryScreen2, whatever the Flask outcome was, and isProcessing is     *)
(* false again.                                                            *)
(***************************************************************************)
C30_StopEndsInGallery ==
    (stopPc = "done" /\ isMounted /\ ~errorTimer.pending) =>
        (navigated /\ ~isProcessing)

=============================================================================
